---- MODULE Spec2Model ----
(***************************************************************************)
(* FAK (Formal Assurance Kernel): the proof engine (verify_invariants,     *)
(* generate_bundle), the standalone verifier (verify_bundle) and the data  *)
(* model they validate.                                                    *)
(*                                                                         *)
(* Conventions of the model                                                *)
(*   String          a TLA+ string; is_empty() is  s = ""                  *)
(*   Option<T>       <<>> for None, <<v>> for Some(v)                      *)
(*   Result<T, E>    [ok |-> TRUE, val |-> v]  or  [ok |-> FALSE, err |-> e]*)
(*   Vec<T>          a sequence                                            *)
(*   f64             [fin |-> n], [nan |-> TRUE] or [inf |-> 1 / -1]       *)
(*   serde_json      [str |-> s], [num |-> n], [arr |-> seq],              *)
(*                   [obj |-> seq of <<key, value>>]                       *)
(*   SHA-256         an injective function of the hashed text (no          *)
(*                   collisions), rendered as a string                     *)
(***************************************************************************)
EXTENDS Integers, Sequences, FiniteSets, TLC

VARIABLES
    config,          \* EngineConfig of the ProofEngine the client uses
    vconfig,         \* EngineConfig of the Verifier's own ProofEngine
    pc,              \* position of the running verify_invariants call
    args,            \* arguments of the running verify_invariants call
    start_time,      \* engine.rs:57
    clock,           \* the last value current_time_secs() returned to the call
    idx,             \* index of the next invariant of the for loop (engine.rs:69)
    counterexamples, \* engine.rs:67
    evaluated,       \* indices handed to check_invariant so far (history)
    ret,             \* Option<FakResult<ProofWitness>>: what the call returned
    phase,           \* position of the bundle workflow
    witness,         \* Option<ProofWitness>: the last witness the client got
    gen,             \* Option<FakResult<ProofBundle>>: what generate_bundle returned
    bundle,          \* Option<ProofBundle>: the bundle handed to the verifier
    edit,            \* what was altered in the bundle after generation
    vclk,            \* the clock readings the verifier's engine observed
    bresult,         \* Option<BundleResult>: what verify_bundle returned
    gen_args,        \* the witness list handed to generate_bundle
    arc,             \* ArtifactManager handle -> the shared map its Arc points to
    heap,            \* the RwLock<HashMap<String, Value>> allocations
    threads,         \* per thread: the store operation it runs, its position, its result
    live,            \* per allocation: the (id, value) pairs stored since the last clear (history)
    call             \* Option: the last call of a pure function, its input and what it returned

vars == <<config, vconfig, pc, args, start_time, clock, idx, counterexamples,
          evaluated, ret, phase, witness, gen, bundle, edit, vclk, bresult, gen_args,
          arc, heap, threads, live, call>>

engineVars == <<pc, args, start_time, clock, idx, counterexamples, evaluated, ret>>
bundleVars == <<phase, witness, gen, bundle, edit, vclk, bresult, gen_args>>
storeVars == <<arc, heap, threads, live>>

(***************************************************************************)
(* Program constants                                                       *)
(***************************************************************************)
MAX_STEPS == 100000
MAX_WITNESSES == 100
DefaultMaxInvariants == 1000
DefaultTimeoutSecs == 30

(***************************************************************************)
(* Bounds of the model                                                     *)
(***************************************************************************)
MaxInvLen == 2
MaxTime == 1
TightMaxInvariants == 1
TightTimeoutSecs == 0
MaxTokens == 3
MaxLines == 3

(***************************************************************************)
(* Generic helpers                                                         *)
(***************************************************************************)
None == <<>>
Some(v) == <<v>>
Ok(v) == [ok |-> TRUE, val |-> v]
Err(e) == [ok |-> FALSE, err |-> e]
SetMin(S) == CHOOSE m \in S : \A n \in S : m <= n
SeqsUpTo(S, n) == UNION {[1..k -> S] : k \in 0..n}
Repeat(v, n) == [i \in 1..n |-> v]

(***************************************************************************)
(* f64 (types.rs:117, 143-149; engine.rs:171)                              *)
(***************************************************************************)
Fin(n) == [fin |-> n]
NaN == [nan |-> TRUE]
is_nan(x) == "nan" \in DOMAIN x
is_infinite(x) == "inf" \in DOMAIN x
\* x < 0.0
LtZero(x) ==
    IF "fin" \in DOMAIN x THEN x.fin < 0
    ELSE IF "inf" \in DOMAIN x THEN x.inf < 0
    ELSE FALSE
\* x >= 0.0
GeZero(x) ==
    IF "fin" \in DOMAIN x THEN x.fin >= 0
    ELSE IF "inf" \in DOMAIN x THEN x.inf > 0
    ELSE FALSE

(***************************************************************************)
(* error.rs                                                                *)
(***************************************************************************)
Validation(field, message) ==
    [kind |-> "Validation", field |-> field, message |-> message]
ResourceLimit(resource, limit, actual) ==
    [kind |-> "ResourceLimit", resource |-> resource, limit |-> limit, actual |-> actual]

ParseError(source, message) ==
    [kind |-> "ParseError", source |-> source, message |-> message]

\* impl fmt::Display for FakError
to_string(e) ==
    IF e.kind = "Validation"
    THEN "validation error on '" \o e.field \o "': " \o e.message
    ELSE e.resource \o " limit exceeded: " \o ToString(e.actual) \o " > " \o ToString(e.limit)

(***************************************************************************)
(* Canonical hashing (types.rs:469-496)                                    *)
(***************************************************************************)
JStr(s) == [str |-> s]
JNum(n) == [num |-> n]
JArr(a) == [arr |-> a]
JObj(o) == [obj |-> o]
\* A Number made from a finite f64 with no fraction, which is written "n.0".
JF64(n) == [f64 |-> n]

\* Every object key the program hashes, in the lexicographic order keys.sort() gives.
KeyOrder ==
    <<"agent_id", "ast", "authority_graph", "capabilities", "capabilities_id",
      "compiled_enforcement", "cost_ledger_id", "entries", "id", "invariant_names",
      "metadata", "note", "policy_ir_id", "root", "steps", "total_cost", "trace_id",
      "witnesses">>

\* items.join(sep), split in halves to keep the evaluation shallow.
RECURSIVE Join(_, _)
Join(items, sep) ==
    IF items = <<>> THEN ""
    ELSE IF Len(items) = 1 THEN items[1]
    ELSE LET h == Len(items) \div 2
         IN Join(SubSeq(items, 1, h), sep) \o sep \o Join(SubSeq(items, h + 1, Len(items)), sep)

\* serde_json::to_string of a string scalar
Quote(s) == "\"" \o s \o "\""

Lookup(pairs, k) == (CHOOSE i \in 1..Len(pairs) : pairs[i][1] = k)

\* A variant that writes the keys in the order the object holds them; no
\* specification uses it.
RECURSIVE canonical_json_Unsorted(_)
canonical_json_Unsorted(value) ==
    IF "obj" \in DOMAIN value THEN
        LET map == value.obj
            pairs == [j \in 1..Len(map) |->
                        Quote(map[j][1]) \o ":" \o canonical_json_Unsorted(map[j][2])]
        IN "{" \o Join(pairs, ",") \o "}"
    ELSE IF "arr" \in DOMAIN value THEN
        LET items == [j \in 1..Len(value.arr) |-> canonical_json_Unsorted(value.arr[j])]
        IN "[" \o Join(items, ",") \o "]"
    ELSE IF "str" \in DOMAIN value THEN Quote(value.str)
    ELSE IF "f64" \in DOMAIN value THEN ToString(value.f64) \o ".0"
    ELSE ToString(value.num)

\* A variant that sorts the keys of the outermost object only; no
\* specification uses it.
canonical_json_ShallowSort(value) ==
    IF "obj" \in DOMAIN value THEN
        LET map == value.obj
            keys == SelectSeq(KeyOrder, LAMBDA k : \E i \in 1..Len(map) : map[i][1] = k)
            pairs == [j \in 1..Len(keys) |->
                        Quote(keys[j]) \o ":"
                           \o canonical_json_Unsorted(map[Lookup(map, keys[j])][2])]
        IN "{" \o Join(pairs, ",") \o "}"
    ELSE canonical_json_Unsorted(value)

RECURSIVE canonical_json(_)
canonical_json(value) ==
    IF "obj" \in DOMAIN value THEN
        LET map == value.obj
            keys == SelectSeq(KeyOrder, LAMBDA k : \E i \in 1..Len(map) : map[i][1] = k)
            pairs == [j \in 1..Len(keys) |->
                        Quote(keys[j]) \o ":" \o canonical_json(map[Lookup(map, keys[j])][2])]
        IN "{" \o Join(pairs, ",") \o "}"
    ELSE IF "arr" \in DOMAIN value THEN
        LET items == [j \in 1..Len(value.arr) |-> canonical_json(value.arr[j])]
        IN "[" \o Join(items, ",") \o "]"
    ELSE IF "str" \in DOMAIN value THEN Quote(value.str)
    ELSE IF "f64" \in DOMAIN value THEN ToString(value.f64) \o ".0"
    ELSE ToString(value.num)

\* Sha256 + lowercase hex of the text, taken collision-free.
Sha256Hex(text) == "sha256(" \o text \o ")"

compute_content_hash(obj) == Sha256Hex(canonical_json(obj))

(***************************************************************************)
(* Data model (types.rs)                                                   *)
(***************************************************************************)
ExecutionTrace(id, steps, metadata) ==
    [id |-> id, steps |-> steps, metadata |-> metadata]

ExecutionTrace_validate(self) ==
    IF self.id = ""
    THEN Err(Validation("id", "ExecutionTrace must have a non-empty ID"))
    ELSE IF Len(self.steps) > MAX_STEPS
    THEN Err(ResourceLimit("trace_steps", MAX_STEPS, Len(self.steps)))
    ELSE Ok(TRUE)

CapabilityManifest(id, agent_id, capabilities, authority_graph, metadata) ==
    [id |-> id, agent_id |-> agent_id, capabilities |-> capabilities,
     authority_graph |-> authority_graph, metadata |-> metadata]

\* A variant without the check of the agent id; no specification uses it.
CapabilityManifest_validate_IdOnly(self) ==
    IF self.id = ""
    THEN Err(Validation("id", "CapabilityManifest must have a non-empty ID"))
    ELSE Ok(TRUE)

CapabilityManifest_validate(self) ==
    IF self.id = ""
    THEN Err(Validation("id", "CapabilityManifest must have a non-empty ID"))
    ELSE IF self.agent_id = ""
    THEN Err(Validation("agent_id", "CapabilityManifest must have a non-empty agent_id"))
    ELSE Ok(TRUE)

CostLedger(id, entries, total_cost, metadata) ==
    [id |-> id, entries |-> entries, total_cost |-> total_cost, metadata |-> metadata]

\* A variant without the check for a negative total; no specification uses it.
CostLedger_validate_FiniteOnly(self) ==
    IF self.id = ""
    THEN Err(Validation("id", "CostLedger must have a non-empty ID"))
    ELSE IF is_nan(self.total_cost) \/ is_infinite(self.total_cost)
    THEN Err(Validation("total_cost", "CostLedger total_cost must be finite"))
    ELSE Ok(TRUE)

CostLedger_validate(self) ==
    IF self.id = ""
    THEN Err(Validation("id", "CostLedger must have a non-empty ID"))
    ELSE IF LtZero(self.total_cost)
    THEN Err(Validation("total_cost", "CostLedger total_cost cannot be negative"))
    ELSE IF is_nan(self.total_cost) \/ is_infinite(self.total_cost)
    THEN Err(Validation("total_cost", "CostLedger total_cost must be finite"))
    ELSE Ok(TRUE)

PolicyIR(id, ast, compiled_enforcement, metadata) ==
    [id |-> id, ast |-> ast, compiled_enforcement |-> compiled_enforcement,
     metadata |-> metadata]

PolicyIR_validate(self) ==
    IF self.id = ""
    THEN Err(Validation("id", "PolicyIR must have a non-empty ID"))
    ELSE Ok(TRUE)

\* ProofType::as_str
as_str(pt) ==
    CASE pt = "BehavioralSoundness" -> "behavioral_soundness"
      [] pt = "AuthorityNonEscalation" -> "authority_non_escalation"
      [] pt = "EconomicInvariance" -> "economic_invariance"
      [] pt = "SemanticPreservation" -> "semantic_preservation"

InvariantSpec(name, description, precondition, postcondition, temporal_properties, invariant_type) ==
    [name |-> name, description |-> description, precondition |-> precondition,
     postcondition |-> postcondition, temporal_properties |-> temporal_properties,
     invariant_type |-> invariant_type]

InvariantSpec_validate(self) ==
    IF self.name = ""
    THEN Err(Validation("name", "InvariantSpec must have a non-empty name"))
    ELSE Ok(TRUE)

CounterExample(invariant_name, error_type, details, step_index) ==
    [invariant_name |-> invariant_name, error_type |-> error_type,
     details |-> details, step_index |-> step_index]

\* serde_json::to_value of an artifact that validates: #[derive(Serialize)]
\* writes the fields in the order of their declaration.
to_value(artifact) ==
    LET strings(s) == JArr([i \in 1..Len(s) |-> JStr(s[i])])
        graph == artifact.authority_graph
        nodes == IF DOMAIN graph = {} THEN <<>>
                 ELSE SelectSeq(KeyOrder, LAMBDA k : k \in DOMAIN graph)
    IN IF "steps" \in DOMAIN artifact
       THEN JObj(<<<<"id", JStr(artifact.id)>>,
                   <<"steps", JArr(artifact.steps)>>,
                   <<"metadata", JObj(artifact.metadata)>>>>)
       ELSE IF "agent_id" \in DOMAIN artifact
       THEN JObj(<<<<"id", JStr(artifact.id)>>,
                   <<"agent_id", JStr(artifact.agent_id)>>,
                   <<"capabilities", strings(artifact.capabilities)>>,
                   <<"authority_graph",
                     JObj([i \in 1..Len(nodes) |-> <<nodes[i], strings(graph[nodes[i]])>>])>>,
                   <<"metadata", JObj(artifact.metadata)>>>>)
       ELSE IF "total_cost" \in DOMAIN artifact
       THEN JObj(<<<<"id", JStr(artifact.id)>>,
                   <<"entries", JArr(artifact.entries)>>,
                   <<"total_cost", JF64(artifact.total_cost.fin)>>,
                   <<"metadata", JObj(artifact.metadata)>>>>)
       ELSE JObj(<<<<"id", JStr(artifact.id)>>,
                   <<"ast", JObj(artifact.ast)>>,
                   <<"compiled_enforcement",
                     JArr([i \in 1..Len(artifact.compiled_enforcement) |->
                             JNum(artifact.compiled_enforcement[i])])>>,
                   <<"metadata", JObj(artifact.metadata)>>>>)

ProofWitness(proof_id, execution_trace, capability_manifest, cost_ledger, policy_ir, invariants, cexs) ==
    [proof_id |-> proof_id, execution_trace |-> execution_trace,
     capability_manifest |-> capability_manifest, cost_ledger |-> cost_ledger,
     policy_ir |-> policy_ir, invariants |-> invariants, counterexamples |-> cexs]

\* The four artifact validations in the order both callers run them
\* (types.rs:319-322, engine.rs:52-55).
ValidateArtifacts(trace, capabilities, cost_ledger, policy_ir) ==
    IF ~ExecutionTrace_validate(trace).ok THEN ExecutionTrace_validate(trace)
    ELSE IF ~CapabilityManifest_validate(capabilities).ok
    THEN CapabilityManifest_validate(capabilities)
    ELSE IF ~CostLedger_validate(cost_ledger).ok THEN CostLedger_validate(cost_ledger)
    ELSE PolicyIR_validate(policy_ir)

ProofWitness_validate(self) ==
    IF self.proof_id = ""
    THEN Err(Validation("proof_id", "ProofWitness must have a non-empty proof ID"))
    ELSE ValidateArtifacts(self.execution_trace, self.capability_manifest,
                           self.cost_ledger, self.policy_ir)

ProofBundle(id, witnesses, metadata) ==
    [id |-> id, witnesses |-> witnesses, metadata |-> metadata]

\* A variant that asks for at least one witness; no specification uses it.
ProofBundle_validate_NonEmpty(self) ==
    IF self.id = ""
    THEN Err(Validation("id", "ProofBundle must have a non-empty ID"))
    ELSE IF self.witnesses = <<>>
    THEN Err(Validation("witnesses", "ProofBundle must have at least one witness"))
    ELSE IF Len(self.witnesses) > MAX_WITNESSES
    THEN Err(ResourceLimit("bundle_witnesses", MAX_WITNESSES, Len(self.witnesses)))
    ELSE LET bad == {i \in 1..Len(self.witnesses) :
                        ~ProofWitness_validate(self.witnesses[i]).ok}
         IN IF bad = {} THEN Ok(TRUE)
            ELSE ProofWitness_validate(self.witnesses[SetMin(bad)])

\* A variant with the ceiling one too low; no specification uses it.
ProofBundle_validate_AtLeast(self) ==
    IF self.id = ""
    THEN Err(Validation("id", "ProofBundle must have a non-empty ID"))
    ELSE IF Len(self.witnesses) >= MAX_WITNESSES
    THEN Err(ResourceLimit("bundle_witnesses", MAX_WITNESSES, Len(self.witnesses)))
    ELSE LET bad == {i \in 1..Len(self.witnesses) :
                        ~ProofWitness_validate(self.witnesses[i]).ok}
         IN IF bad = {} THEN Ok(TRUE)
            ELSE ProofWitness_validate(self.witnesses[SetMin(bad)])

ProofBundle_validate(self) ==
    IF self.id = ""
    THEN Err(Validation("id", "ProofBundle must have a non-empty ID"))
    ELSE IF Len(self.witnesses) > MAX_WITNESSES
    THEN Err(ResourceLimit("bundle_witnesses", MAX_WITNESSES, Len(self.witnesses)))
    ELSE LET bad == {i \in 1..Len(self.witnesses) :
                        ~ProofWitness_validate(self.witnesses[i]).ok}
         IN IF bad = {} THEN Ok(TRUE)
            ELSE ProofWitness_validate(self.witnesses[SetMin(bad)])

(***************************************************************************)
(* Proof engine (engine.rs)                                                *)
(***************************************************************************)
EngineConfig(max_invariants, timeout_secs) ==
    [max_invariants |-> max_invariants, timeout_secs |-> timeout_secs]

EngineConfig_default == EngineConfig(DefaultMaxInvariants, DefaultTimeoutSecs)

check_behavioral_soundness(trace, inv) ==
    Ok(~(trace.steps = <<>>) \/ inv.precondition = None)

check_authority_non_escalation(caps, inv) ==
    Ok(~(DOMAIN caps.authority_graph = {}) \/ inv.precondition = None)

check_economic_invariance(ledger, inv) ==
    Ok(GeZero(ledger.total_cost))

check_semantic_preservation(policy, inv) ==
    Ok(~(policy.id = ""))

check_invariant(trace, capabilities, cost_ledger, policy_ir, invariant) ==
    IF ~InvariantSpec_validate(invariant).ok THEN InvariantSpec_validate(invariant)
    ELSE CASE invariant.invariant_type = "BehavioralSoundness" ->
                  check_behavioral_soundness(trace, invariant)
           [] invariant.invariant_type = "AuthorityNonEscalation" ->
                  check_authority_non_escalation(capabilities, invariant)
           [] invariant.invariant_type = "EconomicInvariance" ->
                  check_economic_invariance(cost_ledger, invariant)
           [] invariant.invariant_type = "SemanticPreservation" ->
                  check_semantic_preservation(policy_ir, invariant)

\* engine.rs:72-81
TimeoutCounterExample(cfg, invariant, elapsed) ==
    CounterExample(invariant.name, "timeout",
        JObj(<<<<"reason", JStr("Verification timed out")>>,
               <<"elapsed_secs", JNum(elapsed)>>,
               <<"limit_secs", JNum(cfg.timeout_secs)>>>>),
        None)

\* engine.rs:87-95
ViolationCounterExample(invariant) ==
    CounterExample(invariant.name, "violation",
        JObj(<<<<"reason", JStr("Invariant violated")>>,
               <<"invariant_type", JStr(as_str(invariant.invariant_type))>>>>),
        None)

\* engine.rs:96-101
CheckErrorCounterExample(invariant, e) ==
    CounterExample(invariant.name, "check_error",
        JObj(<<<<"error", JStr(to_string(e))>>>>),
        None)

\* Variants of the operators below that differ from the code in one place; no
\* specification uses them.
Precheck_LimitFirst(cfg, trace, capabilities, cost_ledger, policy_ir, invariants) ==
    IF Len(invariants) > cfg.max_invariants
    THEN [ok |-> FALSE,
          err |-> [kind |-> "ResourceLimit", resource |-> "invariants",
                   limit |-> cfg.max_invariants, actual |-> Len(invariants)]]
    ELSE IF ~ValidateArtifacts(trace, capabilities, cost_ledger, policy_ir).ok
    THEN ValidateArtifacts(trace, capabilities, cost_ledger, policy_ir)
    ELSE Ok(TRUE)

Precheck_AtLeast(cfg, trace, capabilities, cost_ledger, policy_ir, invariants) ==
    IF ~ValidateArtifacts(trace, capabilities, cost_ledger, policy_ir).ok
    THEN ValidateArtifacts(trace, capabilities, cost_ledger, policy_ir)
    ELSE IF Len(invariants) >= cfg.max_invariants
    THEN [ok |-> FALSE,
          err |-> [kind |-> "ResourceLimit", resource |-> "invariants",
                   limit |-> cfg.max_invariants, actual |-> Len(invariants)]]
    ELSE Ok(TRUE)

LoopIteration_NoBreak(cfg, trace, capabilities, cost_ledger, policy_ir, invariant, start, now, cexs) ==
    LET r == check_invariant(trace, capabilities, cost_ledger, policy_ir, invariant)
        timed == IF now - start > cfg.timeout_secs
                 THEN Append(cexs, TimeoutCounterExample(cfg, invariant, now - start))
                 ELSE cexs
    IN [counterexamples |->
            IF r.ok THEN (IF r.val THEN timed
                          ELSE Append(timed, ViolationCounterExample(invariant)))
            ELSE Append(timed, CheckErrorCounterExample(invariant, r.err)),
        brk |-> FALSE]

\* engine.rs:52-65: the validations and the invariant-count ceiling that precede
\* the loop.  Ok(TRUE) when the loop is entered.
Precheck(cfg, trace, capabilities, cost_ledger, policy_ir, invariants) ==
    IF ~ValidateArtifacts(trace, capabilities, cost_ledger, policy_ir).ok
    THEN ValidateArtifacts(trace, capabilities, cost_ledger, policy_ir)
    ELSE IF Len(invariants) > cfg.max_invariants
    THEN Err(ResourceLimit("invariants", cfg.max_invariants, Len(invariants)))
    ELSE Ok(TRUE)

\* A variant in which a failed check ends the loop; no specification uses it.
LoopIteration_AbortOnFailure(cfg, trace, capabilities, cost_ledger, policy_ir, invariant, start, now, cexs) ==
    LET elapsed == now - start
        r == check_invariant(trace, capabilities, cost_ledger, policy_ir, invariant)
    IN IF elapsed > cfg.timeout_secs
       THEN [counterexamples |-> Append(cexs, TimeoutCounterExample(cfg, invariant, elapsed)),
             brk |-> TRUE]
       ELSE IF r.ok
       THEN [counterexamples |-> IF r.val THEN cexs
                                 ELSE Append(cexs, ViolationCounterExample(invariant)),
             brk |-> FALSE]
       ELSE [counterexamples |-> Append(cexs, CheckErrorCounterExample(invariant, r.err)),
             brk |-> TRUE]

\* One iteration of the for loop (engine.rs:69-103); `now` is what
\* current_time_secs() returns at line 70.  brk is the break of line 82.
\* A variant that puts a new counterexample in front of the earlier ones; no
\* specification uses it.
LoopIteration_Prepend(cfg, trace, capabilities, cost_ledger, policy_ir, invariant, start, now, cexs) ==
    LET elapsed == now - start
        r == check_invariant(trace, capabilities, cost_ledger, policy_ir, invariant)
    IN IF elapsed > cfg.timeout_secs
       THEN [counterexamples |-> <<TimeoutCounterExample(cfg, invariant, elapsed)>> \o cexs,
             brk |-> TRUE]
       ELSE [counterexamples |->
                IF r.ok THEN (IF r.val THEN cexs
                              ELSE <<ViolationCounterExample(invariant)>> \o cexs)
                ELSE <<CheckErrorCounterExample(invariant, r.err)>> \o cexs,
             brk |-> FALSE]

LoopIteration(cfg, trace, capabilities, cost_ledger, policy_ir, invariant, start, now, cexs) ==
    LET elapsed == now - start
        r == check_invariant(trace, capabilities, cost_ledger, policy_ir, invariant)
    IN IF elapsed > cfg.timeout_secs
       THEN [counterexamples |-> Append(cexs, TimeoutCounterExample(cfg, invariant, elapsed)),
             brk |-> TRUE]
       ELSE [counterexamples |->
                IF r.ok THEN (IF r.val THEN cexs
                              ELSE Append(cexs, ViolationCounterExample(invariant)))
                ELSE Append(cexs, CheckErrorCounterExample(invariant, r.err)),
             brk |-> FALSE]

\* A variant that hashes the invariant types along with the names; no
\* specification uses it.
compute_proof_id_WithTypes(trace, capabilities, cost_ledger, policy_ir, invariants) ==
    compute_content_hash(
        JObj(<<<<"trace_id", JStr(trace.id)>>,
               <<"capabilities_id", JStr(capabilities.id)>>,
               <<"cost_ledger_id", JStr(cost_ledger.id)>>,
               <<"policy_ir_id", JStr(policy_ir.id)>>,
               <<"invariant_names",
                 JArr([i \in 1..Len(invariants) |->
                         JStr(invariants[i].name \o ":" \o invariants[i].invariant_type)])>>>>))

\* engine.rs:105-113
compute_proof_id(trace, capabilities, cost_ledger, policy_ir, invariants) ==
    compute_content_hash(
        JObj(<<<<"trace_id", JStr(trace.id)>>,
               <<"capabilities_id", JStr(capabilities.id)>>,
               <<"cost_ledger_id", JStr(cost_ledger.id)>>,
               <<"policy_ir_id", JStr(policy_ir.id)>>,
               <<"invariant_names",
                 JArr([i \in 1..Len(invariants) |-> JStr(invariants[i].name)])>>>>))

\* A variant that leaves the invariant named by a timeout counterexample out of
\* the witness; no specification uses it.
MakeWitness_WithoutTimedOut(trace, capabilities, cost_ledger, policy_ir, invariants, cexs) ==
    LET timed == {cexs[i].invariant_name : i \in {j \in 1..Len(cexs) : cexs[j].error_type = "timeout"}}
    IN ProofWitness(compute_proof_id(trace, capabilities, cost_ledger, policy_ir, invariants),
                    trace, capabilities, cost_ledger, policy_ir,
                    SelectSeq(invariants, LAMBDA inv : inv.name \notin timed), cexs)

\* engine.rs:105-123
MakeWitness(trace, capabilities, cost_ledger, policy_ir, invariants, cexs) ==
    ProofWitness(compute_proof_id(trace, capabilities, cost_ledger, policy_ir, invariants),
                 trace, capabilities, cost_ledger, policy_ir, invariants, cexs)

\* The n-th reading of the clock during one call: clk[1] is start_time (line 57),
\* clk[i + 1] the reading before invariant i (line 70).
ClockRead(clk, n) == clk[IF n <= Len(clk) THEN n ELSE Len(clk)]

RECURSIVE RunLoop(_, _, _, _, _, _, _, _, _)
RunLoop(cfg, trace, capabilities, cost_ledger, policy_ir, invariants, clk, i, cexs) ==
    IF i > Len(invariants) THEN cexs
    ELSE LET s == LoopIteration(cfg, trace, capabilities, cost_ledger, policy_ir,
                                invariants[i], ClockRead(clk, 1), ClockRead(clk, i + 1), cexs)
         IN IF s.brk THEN s.counterexamples
            ELSE RunLoop(cfg, trace, capabilities, cost_ledger, policy_ir, invariants,
                         clk, i + 1, s.counterexamples)

\* ProofEngine::verify_invariants as one call, under the clock readings clk.
verify_invariants(cfg, trace, capabilities, cost_ledger, policy_ir, invariants, clk) ==
    IF ~Precheck(cfg, trace, capabilities, cost_ledger, policy_ir, invariants).ok
    THEN Precheck(cfg, trace, capabilities, cost_ledger, policy_ir, invariants)
    ELSE Ok(MakeWitness(trace, capabilities, cost_ledger, policy_ir, invariants,
                        RunLoop(cfg, trace, capabilities, cost_ledger, policy_ir,
                                invariants, clk, 1, <<>>)))

\* engine.rs:202-207
BundleIdOf(witnesses) ==
    compute_content_hash(
        JObj(<<<<"witnesses", JArr([i \in 1..Len(witnesses) |-> JStr(witnesses[i].proof_id)])>>,
               <<"metadata", JObj(<<>>)>>>>))

\* A variant that reports the last invalid witness; no specification uses it.
generate_bundle_LastInvalid(witnesses) ==
    IF witnesses = <<>>
    THEN Err(Validation("witnesses", "cannot create bundle with zero witnesses"))
    ELSE LET bad == {i \in 1..Len(witnesses) : ~ProofWitness_validate(witnesses[i]).ok}
         IN IF bad # {}
            THEN ProofWitness_validate(witnesses[CHOOSE i \in bad : \A j \in bad : j <= i])
            ELSE Ok(ProofBundle(BundleIdOf(witnesses), witnesses, <<>>))

generate_bundle(witnesses) ==
    IF witnesses = <<>>
    THEN Err(Validation("witnesses", "cannot create bundle with zero witnesses"))
    ELSE LET bad == {i \in 1..Len(witnesses) : ~ProofWitness_validate(witnesses[i]).ok}
         IN IF bad # {} THEN ProofWitness_validate(witnesses[SetMin(bad)])
            ELSE Ok(ProofBundle(BundleIdOf(witnesses), witnesses, <<>>))

(***************************************************************************)
(* Verifier (verifier.rs)                                                  *)
(***************************************************************************)
WitnessResult(proof_id, success, invariant_count, counterexample_count, error) ==
    [proof_id |-> proof_id, success |-> success, invariant_count |-> invariant_count,
     counterexample_count |-> counterexample_count, error |-> error]

BundleResult(bundle_id, success, witness_results, error) ==
    [bundle_id |-> bundle_id, success |-> success, witness_results |-> witness_results,
     error |-> error]

ProofIdMismatch(expected, got) ==
    "Proof ID mismatch: expected '" \o expected \o "', got '" \o got \o "'"

\* A variant that does not compare the proof ids; no specification uses it.
verify_witness_NoIdCheck(cfg, w, clk) ==
    IF ~ProofWitness_validate(w).ok
    THEN WitnessResult(w.proof_id, FALSE, Len(w.invariants), 0,
                       Some(to_string(ProofWitness_validate(w).err)))
    ELSE LET r == verify_invariants(cfg, w.execution_trace, w.capability_manifest,
                                    w.cost_ledger, w.policy_ir, w.invariants, clk)
         IN IF r.ok
            THEN WitnessResult(w.proof_id, r.val.counterexamples = <<>>,
                               Len(w.invariants), Len(r.val.counterexamples), None)
            ELSE WitnessResult(w.proof_id, FALSE, Len(w.invariants), 0,
                               Some(to_string(r.err)))

verify_witness(cfg, w, clk) ==
    IF ~ProofWitness_validate(w).ok
    THEN WitnessResult(w.proof_id, FALSE, Len(w.invariants), 0,
                       Some(to_string(ProofWitness_validate(w).err)))
    ELSE LET r == verify_invariants(cfg, w.execution_trace, w.capability_manifest,
                                    w.cost_ledger, w.policy_ir, w.invariants, clk)
         IN IF r.ok
            THEN IF r.val.proof_id # w.proof_id
                 THEN WitnessResult(w.proof_id, FALSE, Len(w.invariants),
                                    Len(r.val.counterexamples),
                                    Some(ProofIdMismatch(w.proof_id, r.val.proof_id)))
                 ELSE WitnessResult(w.proof_id, r.val.counterexamples = <<>>,
                                    Len(w.invariants), Len(r.val.counterexamples), None)
            ELSE WitnessResult(w.proof_id, FALSE, Len(w.invariants), 0,
                               Some(to_string(r.err)))

\* A variant that hashes the proof ids under empty metadata; no specification
\* uses it.
compute_bundle_id_ProofIdsOnly(b) ==
    compute_content_hash(
        JObj(<<<<"witnesses",
                 JArr([i \in 1..Len(b.witnesses) |-> JStr(b.witnesses[i].proof_id)])>>,
               <<"metadata", JObj(<<>>)>>>>))

compute_bundle_id(b) ==
    compute_content_hash(
        JObj(<<<<"witnesses",
                 JArr([i \in 1..Len(b.witnesses) |-> JStr(b.witnesses[i].proof_id)])>>,
               <<"metadata", JObj(b.metadata)>>>>))

BundleIdMismatch(expected, got) ==
    "Bundle ID mismatch: expected '" \o expected \o "', got '" \o got \o "'"

\* A variant in which the last witness decides the overall success; no
\* specification uses it.
VerifyWitnesses_LastWins(cfg, b, clk) ==
    LET witness_results == [i \in 1..Len(b.witnesses) |-> verify_witness(cfg, b.witnesses[i], clk)]
        overall_success == b.witnesses = <<>> \/ witness_results[Len(b.witnesses)].success
    IN BundleResult(b.id, overall_success, witness_results, None)

\* verifier.rs:72-90: one result per witness, in order; overall_success starts
\* true and is cleared by every result that is not a success.
VerifyWitnesses(cfg, b, clk) ==
    LET witness_results == [i \in 1..Len(b.witnesses) |-> verify_witness(cfg, b.witnesses[i], clk)]
        overall_success == \A i \in 1..Len(b.witnesses) : witness_results[i].success
    IN BundleResult(b.id, overall_success, witness_results, None)

\* A variant without the bundle-id comparison; no specification uses it.
verify_bundle_NoIdCheck(cfg, b, clk) ==
    IF ~ProofBundle_validate(b).ok
    THEN BundleResult(b.id, FALSE, <<>>, Some(to_string(ProofBundle_validate(b).err)))
    ELSE VerifyWitnesses(cfg, b, clk)

verify_bundle(cfg, b, clk) ==
    IF ~ProofBundle_validate(b).ok
    THEN BundleResult(b.id, FALSE, <<>>, Some(to_string(ProofBundle_validate(b).err)))
    ELSE IF compute_bundle_id(b) # b.id
    THEN BundleResult(b.id, FALSE, <<>>, Some(BundleIdMismatch(compute_bundle_id(b), b.id)))
    ELSE VerifyWitnesses(cfg, b, clk)

(***************************************************************************)
(* Inputs: the artifacts, invariants, configurations and clock readings    *)
(* the operations are exercised with                                       *)
(***************************************************************************)
Step == JStr("step")
TraceA == ExecutionTrace("t1", <<Step>>, <<>>)
TraceA2 == ExecutionTrace("t1", <<Step, JStr("other")>>, <<>>)
TraceB == ExecutionTrace("t2", <<>>, <<>>)
TraceNoId == ExecutionTrace("", <<Step>>, <<>>)
TraceOversize == ExecutionTrace("t3", Repeat(Step, MAX_STEPS + 1), <<>>)

CapsA == CapabilityManifest("c1", "agent", <<"read">>, [p \in {"root"} |-> <<"agent">>], <<>>)
CapsA2 == CapabilityManifest("c1", "agent", <<"read">>, [p \in {"root"} |-> <<"agent", "admin">>], <<>>)
CapsB == CapabilityManifest("c2", "agent", <<>>, <<>>, <<>>)
CapsNoAgent == CapabilityManifest("c1", "", <<"read">>, <<>>, <<>>)

LedgerA == CostLedger("l1", <<JNum(5)>>, Fin(5), <<>>)
LedgerA2 == CostLedger("l1", <<JNum(2), JNum(3)>>, Fin(5), <<>>)
LedgerZero == CostLedger("l2", <<>>, Fin(0), <<>>)
LedgerNaN == CostLedger("l1", <<>>, NaN, <<>>)

PolicyA == PolicyIR("p1", <<>>, <<1, 2>>, <<>>)
PolicyA2 == PolicyIR("p1", <<>>, <<9>>, <<>>)
PolicyNoId == PolicyIR("", <<>>, <<1, 2>>, <<>>)

InvBehavPre == InvariantSpec("behav", "", Some("len > 0"), None, <<>>, "BehavioralSoundness")
InvBehav == InvariantSpec("behav", "no precondition", None, None, <<>>, "BehavioralSoundness")
InvAuthPre == InvariantSpec("auth", "", Some("granted"), None, <<>>, "AuthorityNonEscalation")
InvEcon == InvariantSpec("econ", "", None, None, <<>>, "EconomicInvariance")
InvSem == InvariantSpec("sem", "", None, None, <<>>, "SemanticPreservation")
InvNoName == InvariantSpec("", "", None, None, <<>>, "EconomicInvariance")

Configs ==
    {EngineConfig(m, t) : m \in {TightMaxInvariants, DefaultMaxInvariants},
                          t \in {TightTimeoutSecs, DefaultTimeoutSecs}}

Times == 0..MaxTime

\* Readings of a clock that does not run backwards, one per read of a call,
\* counted from the first one (only the difference to it is ever used).
Clocks ==
    {c \in [1..(MaxInvLen + 1) -> Times] :
        c[1] = 0 /\ \A i \in 1..MaxInvLen : c[i] <= c[i + 1]}

(***************************************************************************)
(* Artifact store (artifacts.rs): the handles, the shared allocations and  *)
(* the threads that use them                                               *)
(***************************************************************************)
Handles == {"s", "c"}
Threads == {"t1", "t2"}


\* RwLock::new(map): nobody holds the lock, and it is not poisoned.
NewLock(map) == [map |-> map, writers |-> {}, readers |-> {}, poisoned |-> FALSE]

\* A thread that runs no store operation.
IdleThread == [pc |-> "idle", op |-> "none", h |-> "s", arg |-> None, id |-> "", res |-> None]

\* ArtifactManager::new() behind handle "s"; handle "c" does not exist yet.
IdleStore ==
    /\ arc = [h \in Handles |-> IF h = "s" THEN 1 ELSE 0]
    /\ heap = <<NewLock(<<>>)>>
    /\ threads = [t \in Threads |-> IdleThread]
    /\ live = <<{}>>
    /\ call = <<>>

(***************************************************************************)
(* EngineSpec: one verify_invariants call, step by step                    *)
(***************************************************************************)
EngineTraces == {TraceA, TraceB, TraceNoId, TraceOversize}
EngineCaps ==
    {CapsA, CapsB, CapabilityManifest("", "agent", <<"read">>, <<>>, <<>>), CapsNoAgent}
EngineLedgers ==
    {LedgerA, CostLedger("l1", <<>>, Fin(-1), <<>>), LedgerNaN,
     CostLedger("", <<>>, Fin(5), <<>>)}
EnginePolicies == {PolicyA, PolicyNoId}
EngineInvariants == {InvBehavPre, InvBehav, InvAuthPre, InvEcon, InvSem, InvNoName}

NoArgs ==
    [trace |-> TraceA, capabilities |-> CapsA, cost_ledger |-> LedgerA,
     policy_ir |-> PolicyA, invariants |-> <<>>]

IdleBundle ==
    /\ phase = "off"
    /\ witness = None
    /\ gen = None
    /\ bundle = None
    /\ edit = None
    /\ vclk = <<>>
    /\ bresult = None
    /\ gen_args = <<>>

IdleEngine ==
    /\ pc = "idle"
    /\ args = NoArgs
    /\ start_time = 0
    /\ clock = 0
    /\ idx = 0
    /\ counterexamples = <<>>
    /\ evaluated = <<>>
    /\ ret = None

EngineInit ==
    /\ config \in Configs
    /\ vconfig = config
    /\ IdleEngine
    /\ IdleBundle
    /\ IdleStore

\* engine.rs:43-67: the call, up to the loop.
Enter(trace, capabilities, cost_ledger, policy_ir, invariants, now) ==
    LET pre == Precheck(config, trace, capabilities, cost_ledger, policy_ir, invariants)
    IN /\ pc = "idle"
       /\ args' = [trace |-> trace, capabilities |-> capabilities,
                   cost_ledger |-> cost_ledger, policy_ir |-> policy_ir,
                   invariants |-> invariants]
       /\ start_time' =
            IF ValidateArtifacts(trace, capabilities, cost_ledger, policy_ir).ok
            THEN now ELSE start_time
       /\ clock' =
            IF ValidateArtifacts(trace, capabilities, cost_ledger, policy_ir).ok
            THEN now ELSE clock
       /\ idx' = 1
       /\ pc' = IF ~pre.ok THEN "done" ELSE IF invariants = <<>> THEN "exit" ELSE "loop"
       /\ ret' = IF pre.ok THEN None ELSE Some(pre)
       /\ UNCHANGED <<config, vconfig, counterexamples, evaluated>>
       /\ UNCHANGED bundleVars
       /\ UNCHANGED storeVars
       /\ UNCHANGED call

\* engine.rs:69-103: one iteration of the loop.  The wall clock read at line 70
\* is any of Times, earlier readings included.
Iterate(now) ==
    LET s == LoopIteration(config, args.trace, args.capabilities, args.cost_ledger,
                           args.policy_ir, args.invariants[idx], start_time, now,
                           counterexamples)
    IN /\ pc = "loop"
       /\ counterexamples' = s.counterexamples
       /\ evaluated' = IF s.brk THEN evaluated ELSE Append(evaluated, idx)
       /\ idx' = IF s.brk THEN idx ELSE idx + 1
       /\ pc' = IF s.brk \/ idx = Len(args.invariants) THEN "exit" ELSE "loop"
       /\ clock' = now
       /\ UNCHANGED <<config, vconfig, args, start_time, ret>>
       /\ UNCHANGED bundleVars
       /\ UNCHANGED storeVars
       /\ UNCHANGED call

\* engine.rs:105-123: the witness is built and returned.
Return ==
    /\ pc = "exit"
    /\ ret' = Some(Ok(MakeWitness(args.trace, args.capabilities, args.cost_ledger,
                                  args.policy_ir, args.invariants, counterexamples)))
    /\ pc' = "done"
    /\ UNCHANGED <<config, vconfig, args, start_time, clock, idx, counterexamples,
                   evaluated>>
    /\ UNCHANGED bundleVars
    /\ UNCHANGED storeVars
    /\ UNCHANGED call

\* The calls made: over valid artifacts every invariant list up to MaxInvLen and
\* one just over the default ceiling; over the other artifact combinations, the
\* empty list and one of full length.
EngineLists(t, c, l, p) ==
    IF ValidateArtifacts(t, c, l, p).ok
    THEN SeqsUpTo(EngineInvariants, MaxInvLen)
         \cup {Repeat(InvEcon, DefaultMaxInvariants + 1)}
    ELSE {<<>>, Repeat(InvEcon, MaxInvLen)}

EngineNext ==
    \/ /\ pc = "idle"
       /\ \E trace \in EngineTraces, capabilities \in EngineCaps,
             cost_ledger \in EngineLedgers, policy_ir \in EnginePolicies :
             \E invariants \in EngineLists(trace, capabilities, cost_ledger, policy_ir),
                now \in Times :
                Enter(trace, capabilities, cost_ledger, policy_ir, invariants, now)
    \/ /\ pc = "loop"
       /\ \E now \in Times : Iterate(now)
    \/ Return

EngineSpec == EngineInit /\ [][EngineNext]_vars

(***************************************************************************)
(* Spec: a client obtains a witness, bundles it, the bundle is possibly    *)
(* altered by hand, and the verifier checks it                             *)
(***************************************************************************)

\* What verify_invariants returns for valid artifacts and no invariants.
PadWitness == MakeWitness(TraceA, CapsA, LedgerA, PolicyA, <<>>, <<>>)

\* How many such witnesses the client bundles: after its own witness none or
\* one; without one, a batch at and just over the ceiling (or none at all).
PadCounts(w) ==
    IF w = None THEN {0, MAX_WITNESSES, MAX_WITNESSES + 1} ELSE {0, 1}

\* The engine configurations of the client and of the verifier.
SpecConfigs == {EngineConfig_default, EngineConfig(TightMaxInvariants, TightTimeoutSecs)}

\* The witnesses of a bundle that the alterations reach.
EditIdx(b) == {1, Len(b.witnesses)}

InvEconAsSem == InvariantSpec("econ", "", None, None, <<>>, "SemanticPreservation")
EditIds == {"", "forged"}

Init ==
    /\ config \in SpecConfigs
    /\ vconfig \in SpecConfigs
    /\ IdleEngine
    /\ phase = "start"
    /\ witness = None
    /\ gen = None
    /\ bundle = None
    /\ edit = None
    /\ vclk = <<>>
    /\ bresult = None
    /\ gen_args = <<>>
    /\ IdleStore

\* The client calls ProofEngine::verify_invariants and keeps the witness.
ClientVerify(trace, invariants, clk) ==
    LET r == verify_invariants(config, trace, CapsA, LedgerA, PolicyA, invariants, clk)
    IN /\ phase = "start"
       /\ r.ok
       /\ witness' = Some(r.val)
       /\ phase' = "witness"
       /\ UNCHANGED <<config, vconfig, gen, bundle, edit, vclk, bresult, gen_args>>
       /\ UNCHANGED engineVars
       /\ UNCHANGED storeVars
       /\ UNCHANGED call

\* What the client appends to the witnesses of the engine: nothing, or two
\* witnesses put together by hand (the fields are public) that do not
\* validate, one without proof id and one with an invalid trace, in either order.
Tails ==
    LET WitnessNoProofId == ProofWitness("", TraceA, CapsA, LedgerA, PolicyA, <<>>, <<>>)
        WitnessBadTrace ==
            ProofWitness(compute_proof_id(TraceNoId, CapsA, LedgerA, PolicyA, <<>>),
                         TraceNoId, CapsA, LedgerA, PolicyA, <<>>, <<>>)
    IN {<<>>, <<WitnessNoProofId, WitnessBadTrace>>, <<WitnessBadTrace, WitnessNoProofId>>}

\* The client calls ProofEngine::generate_bundle.
GenerateBundle(n, tail) ==
    LET r == generate_bundle(witness \o Repeat(PadWitness, n) \o tail)
    IN /\ phase \in {"start", "witness"}
       /\ gen_args' = witness \o Repeat(PadWitness, n) \o tail
       /\ gen' = Some(r)
       /\ bundle' = IF r.ok THEN Some(r.val) ELSE None
       /\ phase' = "bundled"
       /\ UNCHANGED <<config, vconfig, witness, edit, vclk, bresult>>
       /\ UNCHANGED engineVars
       /\ UNCHANGED storeVars
       /\ UNCHANGED call

\* A bundle without witnesses put together by hand (ProofBundle::new, or the
\* public fields), under the id the verifier computes for it or another one.
HandMetadata == {<<>>, <<<<"note", JStr("x")>>>>}
HandIds == {"", "forged"} \cup {compute_bundle_id(ProofBundle("", <<>>, m)) : m \in HandMetadata}

HandBuild(id, metadata) ==
    /\ phase = "start"
    /\ bundle' = Some(ProofBundle(id, <<>>, metadata))
    /\ edit' = Some([field |-> "hand", k |-> 0])
    /\ phase' = "bundled"
    /\ UNCHANGED <<config, vconfig, witness, gen, vclk, bresult, gen_args>>
    /\ UNCHANGED engineVars
    /\ UNCHANGED storeVars
    /\ UNCHANGED call

\* A field of the bundle is replaced (the fields are public): at most one
\* alteration per bundle.
Alter(b, what) ==
    /\ phase = "bundled"
    /\ bundle # None
    /\ edit = None
    /\ b # bundle[1]
    /\ bundle' = Some(b)
    /\ edit' = Some(what)
    /\ UNCHANGED <<config, vconfig, phase, witness, gen, vclk, bresult, gen_args>>
    /\ UNCHANGED engineVars
    /\ UNCHANGED storeVars
    /\ UNCHANGED call

\* The clock readings of one verify_bundle call: one at the start of a re-run
\* and one before each invariant; a reading no re-run makes repeats the last
\* one made.
ReadingsMade(b) ==
    1 + Cardinality({n \in 1..MaxInvLen :
                        \E i \in 1..Len(b.witnesses) : Len(b.witnesses[i].invariants) >= n})
VerifierClocks(b) ==
    {c \in Clocks : \A i \in 1..MaxInvLen : i >= ReadingsMade(b) => c[i + 1] = c[i]}

\* Verifier::verify_bundle
VerifyBundle(clk) ==
    /\ phase = "bundled"
    /\ bundle # None
    /\ bresult' = Some(verify_bundle(vconfig, bundle[1], clk))
    /\ vclk' = clk
    /\ phase' = "verified"
    /\ UNCHANGED <<config, vconfig, witness, gen, bundle, edit, gen_args>>
    /\ UNCHANGED engineVars
    /\ UNCHANGED storeVars
    /\ UNCHANGED call

\* The bundle can be altered: it exists and is as generate_bundle returned it.
Editable ==
    /\ phase = "bundled"
    /\ bundle # None
    /\ edit = None

Next ==
    \/ /\ phase = "start"
       /\ \E trace \in {TraceA, TraceB}, invariants \in SeqsUpTo({InvBehavPre, InvEcon}, MaxInvLen),
             clk \in Clocks : ClientVerify(trace, invariants, clk)
    \/ \E n \in PadCounts(witness), tail \in Tails : GenerateBundle(n, tail)
    \/ \E id \in HandIds, metadata \in HandMetadata : HandBuild(id, metadata)
    \/ Editable /\ \E s \in EditIds :
          Alter([bundle[1] EXCEPT !.id = s], [field |-> "id", k |-> 0])
    \/ Editable /\ \E m \in {<<<<"note", JStr("x")>>>>} :
          Alter([bundle[1] EXCEPT !.metadata = m], [field |-> "metadata", k |-> 0])
    \/ Editable /\ \E k \in EditIdx(bundle[1]), s \in EditIds :
          Alter([bundle[1] EXCEPT !.witnesses[k].proof_id = s], [field |-> "proof_id", k |-> k])
    \/ Editable /\ \E k \in EditIdx(bundle[1]), t \in {TraceA2, TraceB, TraceNoId} :
          Alter([bundle[1] EXCEPT !.witnesses[k].execution_trace = t],
                [field |-> "execution_trace", k |-> k])
    \/ Editable /\ \E k \in EditIdx(bundle[1]), c \in {CapsA2, CapsNoAgent} :
          Alter([bundle[1] EXCEPT !.witnesses[k].capability_manifest = c],
                [field |-> "capability_manifest", k |-> k])
    \/ Editable /\ \E k \in EditIdx(bundle[1]), l \in {LedgerA2, LedgerNaN} :
          Alter([bundle[1] EXCEPT !.witnesses[k].cost_ledger = l],
                [field |-> "cost_ledger", k |-> k])
    \/ Editable /\ \E k \in EditIdx(bundle[1]), p \in {PolicyA2, PolicyNoId} :
          Alter([bundle[1] EXCEPT !.witnesses[k].policy_ir = p],
                [field |-> "policy_ir", k |-> k])
    \/ Editable /\ \E k \in EditIdx(bundle[1]),
                       invs \in {<<>>, <<InvBehav>>, <<InvEconAsSem>>, <<InvSem>>, <<InvNoName>>} :
          Alter([bundle[1] EXCEPT !.witnesses[k].invariants = invs],
                [field |-> "invariants", k |-> k])
    \/ Editable /\ \E k \in EditIdx(bundle[1]),
                       cexs \in {<<>>, <<ViolationCounterExample(InvEcon)>>} :
          Alter([bundle[1] EXCEPT !.witnesses[k].counterexamples = cexs],
                [field |-> "counterexamples", k |-> k])
    \/ /\ phase = "bundled"
       /\ bundle # None
       /\ \E clk \in VerifierClocks(bundle[1]) : VerifyBundle(clk)

Spec == Init /\ [][Next]_vars

(***************************************************************************)
(* StoreSpec: two threads use an ArtifactManager and its clone.  Every     *)
(* method is a sequence of steps: the call (store_artifact hashes here),   *)
(* the lock acquisition, the steps made while the guard is held, and the   *)
(* release of the guard at the end of the method.                          *)
(***************************************************************************)
\* error.rs:10 and error.rs:29
ArtifactNotFound(artifact_id) == [kind |-> "ArtifactNotFound", artifact_id |-> artifact_id]
LockPoisoned(resource) == [kind |-> "LockPoisoned", resource |-> resource]

\* serde_json::Value equality: objects are maps, the order of keys is not
\* part of the value.
RECURSIVE JsonEq(_, _)
JsonEq(a, b) ==
    IF "obj" \in DOMAIN a /\ "obj" \in DOMAIN b
    THEN /\ Len(a.obj) = Len(b.obj)
         /\ \A i \in 1..Len(a.obj) :
               \E j \in 1..Len(b.obj) :
                  a.obj[i][1] = b.obj[j][1] /\ JsonEq(a.obj[i][2], b.obj[j][2])
    ELSE IF "arr" \in DOMAIN a /\ "arr" \in DOMAIN b
    THEN /\ Len(a.arr) = Len(b.arr)
         /\ \A i \in 1..Len(a.arr) : JsonEq(a.arr[i], b.arr[i])
    ELSE a = b

\* The artifacts the threads store: one object written with its keys in two
\* orders, and a different one.
StoreValues ==
    {JObj(<<<<"metadata", JStr("a")>>, <<"note", JStr("x")>>>>),
     JObj(<<<<"note", JStr("x")>>, <<"metadata", JStr("a")>>>>),
     JObj(<<<<"note", JStr("y")>>>>)}

\* An entry of the map while HashMap::insert is writing it.
Torn == [torn |-> TRUE]

\* A lock that lets readers in while a writer holds it; no specification uses it.
CanRead_Always(l) == TRUE

\* std::sync::RwLock: write() waits for every guard, read() for the writer.
CanWrite(l) == l.writers = {} /\ l.readers = {}
CanRead(l) == l.writers = {}

\* artifacts.rs:27-28, 37, 50, 122, 138: the method is entered; store_artifact
\* computes the id before it asks for the lock.
Call(t, op, h, v) ==
    /\ threads[t].pc = "idle"
    /\ arc[h] # 0
    /\ op = "clone" => h = "s"
    /\ threads' = [threads EXCEPT ![t] =
                     [pc |-> "lock", op |-> op, h |-> h,
                      arg |-> IF op = "store" THEN Some(v) ELSE None,
                      id |-> IF op \in {"store", "retrieve", "contains"}
                             THEN compute_content_hash(v) ELSE "",
                      res |-> None]]
    /\ UNCHANGED <<arc, heap, live>>
    /\ UNCHANGED <<config, vconfig>>
    /\ UNCHANGED engineVars
    /\ UNCHANGED bundleVars
    /\ UNCHANGED call

\* artifacts.rs:29-31, 38-40, 51-53, 123-125, 139: write() or read(); a
\* poisoned lock is an error, and a panic in clone.
Acquire(t) ==
    LET th == threads[t]
        s == arc[th.h]
        l == heap[s]
        write == th.op \in {"store", "clear"}
    IN /\ th.pc = "lock"
       /\ IF l.poisoned
          THEN /\ threads' = [threads EXCEPT ![t] =
                    IF th.op = "clone"
                    THEN [th EXCEPT !.pc = "panicked"]
                    ELSE [th EXCEPT !.pc = "done",
                                    !.res = Some(Err(LockPoisoned("artifacts")))]]
               /\ heap' = heap
          ELSE /\ IF write THEN CanWrite(l) ELSE CanRead(l)
               /\ heap' = [heap EXCEPT ![s] =
                    IF write THEN [l EXCEPT !.writers = @ \cup {t}]
                    ELSE [l EXCEPT !.readers = @ \cup {t}]]
               /\ threads' = [threads EXCEPT ![t].pc = "crit"]
       /\ UNCHANGED <<arc, live>>
       /\ UNCHANGED <<config, vconfig>>
       /\ UNCHANGED engineVars
       /\ UNCHANGED bundleVars
       /\ UNCHANGED call

\* artifacts.rs:32: HashMap::insert begins, the entry is being written.
Insert(t) ==
    LET th == threads[t]
        s == arc[th.h]
        m == heap[s].map
    IN /\ th.pc = "crit"
       /\ th.op = "store"
       /\ heap' = [heap EXCEPT ![s].map =
                     [k \in DOMAIN m \cup {th.id} |-> IF k = th.id THEN Torn ELSE m[k]]]
       /\ threads' = [threads EXCEPT ![t].pc = "mid"]
       /\ UNCHANGED <<arc, live>>
       /\ UNCHANGED <<config, vconfig>>
       /\ UNCHANGED engineVars
       /\ UNCHANGED bundleVars
       /\ UNCHANGED call

\* artifacts.rs:32: HashMap::insert ends, the entry holds the artifact.
Commit(t) ==
    LET th == threads[t]
        s == arc[th.h]
    IN /\ th.pc = "mid"
       /\ th.op = "store"
       /\ heap' = [heap EXCEPT ![s].map[th.id] = th.arg[1]]
       /\ live' = [live EXCEPT ![s] = @ \cup {<<th.id, th.arg[1]>>}]
       /\ threads' = [threads EXCEPT ![t].pc = "release"]
       /\ UNCHANGED arc
       /\ UNCHANGED <<config, vconfig>>
       /\ UNCHANGED engineVars
       /\ UNCHANGED bundleVars
       /\ UNCHANGED call

\* artifacts.rs:126: HashMap::clear begins, one entry has gone.
Drain(t) ==
    LET th == threads[t]
        s == arc[th.h]
        m == heap[s].map
    IN /\ th.pc = "crit"
       /\ th.op = "clear"
       /\ \E gone \in (IF DOMAIN m = {} THEN {{}} ELSE {{k} : k \in DOMAIN m}) :
             heap' = [heap EXCEPT ![s].map = [k \in DOMAIN m \ gone |-> m[k]]]
       /\ threads' = [threads EXCEPT ![t].pc = "mid"]
       /\ UNCHANGED <<arc, live>>
       /\ UNCHANGED <<config, vconfig>>
       /\ UNCHANGED engineVars
       /\ UNCHANGED bundleVars
       /\ UNCHANGED call

\* A clear that leaves the map as it is; no specification uses it.
Erase_KeepEntries(t) ==
    LET th == threads[t]
        s == arc[th.h]
    IN /\ th.pc = "mid"
       /\ th.op = "clear"
       /\ heap' = heap
       /\ live' = [live EXCEPT ![s] = {}]
       /\ threads' = [threads EXCEPT ![t].pc = "release"]
       /\ UNCHANGED arc
       /\ UNCHANGED <<config, vconfig>>
       /\ UNCHANGED engineVars
       /\ UNCHANGED bundleVars
       /\ UNCHANGED call

\* artifacts.rs:126: HashMap::clear ends, the map is empty.
Erase(t) ==
    LET th == threads[t]
        s == arc[th.h]
    IN /\ th.pc = "mid"
       /\ th.op = "clear"
       /\ heap' = [heap EXCEPT ![s].map = <<>>]
       /\ live' = [live EXCEPT ![s] = {}]
       /\ threads' = [threads EXCEPT ![t].pc = "release"]
       /\ UNCHANGED arc
       /\ UNCHANGED <<config, vconfig>>
       /\ UNCHANGED engineVars
       /\ UNCHANGED bundleVars
       /\ UNCHANGED call

\* artifacts.rs:33-34 and 127-128: the method returns and the write guard is
\* dropped.
Release(t) ==
    LET th == threads[t]
        s == arc[th.h]
    IN /\ th.pc = "release"
       /\ heap' = [heap EXCEPT ![s].writers = @ \ {t}]
       /\ threads' = [threads EXCEPT ![t] =
            [th EXCEPT !.pc = "done",
                       !.res = Some(Ok(IF th.op = "store" THEN th.id ELSE "()"))]]
       /\ UNCHANGED <<arc, live>>
       /\ UNCHANGED <<config, vconfig>>
       /\ UNCHANGED engineVars
       /\ UNCHANGED bundleVars
       /\ UNCHANGED call

\* artifacts.rs:41-47 and 54-55: the lookup under the read guard, which is
\* dropped on return.
Read(t) ==
    LET th == threads[t]
        s == arc[th.h]
        m == heap[s].map
    IN /\ th.pc = "crit"
       /\ th.op \in {"retrieve", "contains"}
       /\ heap' = [heap EXCEPT ![s].readers = @ \ {t}]
       /\ threads' = [threads EXCEPT ![t] =
            [th EXCEPT !.pc = "done",
                       !.res = Some(IF th.op = "contains" THEN Ok(th.id \in DOMAIN m)
                                    ELSE IF th.id \in DOMAIN m THEN Ok(m[th.id])
                                    ELSE Err(ArtifactNotFound(th.id)))]]
       /\ UNCHANGED <<arc, live>>
       /\ UNCHANGED <<config, vconfig>>
       /\ UNCHANGED engineVars
       /\ UNCHANGED bundleVars
       /\ UNCHANGED call

\* The allocation Arc::clone would give: the one of the original; no
\* specification uses it.
CloneSlot_Shared == arc["s"]

\* The allocation a new manager gets: a fresh one, or the one of the handle
\* it replaces.
CloneSlot == IF arc["c"] = 0 THEN Len(heap) + 1 ELSE arc["c"]

\* artifacts.rs:140-142: a new Arc, a new RwLock and a copy of the map, bound
\* to the handle "c"; the read guard on the original is dropped on return.
CloneCopy(t) ==
    LET th == threads[t]
        s == arc[th.h]
        n == CloneSlot
    IN /\ th.pc = "crit"
       /\ th.op = "clone"
       /\ \A u \in Threads : threads[u].pc # "idle" => threads[u].h # "c"
       /\ arc' = [arc EXCEPT !["c"] = n]
       /\ heap' = [i \in 1..(IF n > Len(heap) THEN n ELSE Len(heap)) |->
                     IF i = n THEN NewLock(heap[s].map)
                     ELSE IF i = s THEN [heap[s] EXCEPT !.readers = @ \ {t}]
                     ELSE heap[i]]
       /\ live' = [i \in 1..(IF n > Len(live) THEN n ELSE Len(live)) |->
                     IF i = n THEN live[s] ELSE live[i]]
       /\ threads' = [threads EXCEPT ![t] =
            [th EXCEPT !.pc = "done", !.res = Some(Ok("c"))]]
       /\ UNCHANGED <<config, vconfig>>
       /\ UNCHANGED engineVars
       /\ UNCHANGED bundleVars
       /\ UNCHANGED call

\* The caller takes the result.
Finish(t) ==
    /\ threads[t].pc = "done"
    /\ threads' = [threads EXCEPT ![t] = IdleThread]
    /\ UNCHANGED <<arc, heap, live>>
    /\ UNCHANGED <<config, vconfig>>
    /\ UNCHANGED engineVars
    /\ UNCHANGED bundleVars
    /\ UNCHANGED call

StoreInit ==
    /\ config = EngineConfig_default
    /\ vconfig = config
    /\ IdleEngine
    /\ IdleBundle
    /\ IdleStore

StoreNext ==
    \/ \E t \in Threads : /\ threads[t].pc = "idle"
                          /\ \E op \in {"store", "retrieve", "contains", "clear", "clone"},
                                   h \in Handles, v \in StoreValues :
                                Call(t, op, h, v)
    \/ \E t \in Threads : Acquire(t)
    \/ \E t \in Threads : Insert(t)
    \/ \E t \in Threads : Commit(t)
    \/ \E t \in Threads : Drain(t)
    \/ \E t \in Threads : Erase(t)
    \/ \E t \in Threads : Release(t)
    \/ \E t \in Threads : Read(t)
    \/ \E t \in Threads : CloneCopy(t)
    \/ \E t \in Threads : Finish(t)

StoreSpec == StoreInit /\ [][StoreNext]_vars

(***************************************************************************)
(* PoisonSpec: StoreSpec with threads that may panic while they hold the   *)
(* write guard, which poisons the lock (std::sync::RwLock).                *)
(***************************************************************************)
\* artifacts.rs:32 and 126: the thread panics inside insert or clear; the
\* guard is dropped during the unwinding and marks the lock as poisoned.
Panic(t) ==
    LET th == threads[t]
        s == arc[th.h]
    IN /\ th.pc \in {"crit", "mid"}
       /\ th.op \in {"store", "clear"}
       /\ heap' = [heap EXCEPT ![s].writers = @ \ {t}, ![s].poisoned = TRUE]
       /\ threads' = [threads EXCEPT ![t].pc = "panicked"]
       /\ UNCHANGED <<arc, live>>
       /\ UNCHANGED <<config, vconfig>>
       /\ UNCHANGED engineVars
       /\ UNCHANGED bundleVars
       /\ UNCHANGED call

PoisonNext ==
    \/ StoreNext
    \/ \E t \in Threads : Panic(t)

PoisonSpec == StoreInit /\ [][PoisonNext]_vars

(***************************************************************************)
(* CreateSpec: StoreSpec with one create_bundle call, made by thread t1 on  *)
(* either manager while thread t2 makes the other calls.  call holds its   *)
(* frame: the artifacts, their   *)
(* serialisations, the ids the four store_artifact calls have returned so  *)
(* far, and the result once it has returned.  The four stores are store    *)
(* operations of the calling thread, each taking and dropping the lock.    *)
(***************************************************************************)
\* artifacts.rs:58-65
validate_artifact_integrity(artifact_id, artifact) ==
    compute_content_hash(artifact) = artifact_id

\* A store_artifact that takes the digest of the serialisation as it stands;
\* no specification uses it.
StoreCall_RawDigest(h, artifact) ==
    [pc |-> "lock", op |-> "store", h |-> h, arg |-> Some(artifact),
     id |-> Sha256Hex(canonical_json_Unsorted(artifact)), res |-> None]

\* artifacts.rs:27-28: store_artifact is entered from create_bundle.
StoreCall(h, artifact) ==
    [pc |-> "lock", op |-> "store", h |-> h, arg |-> Some(artifact),
     id |-> compute_content_hash(artifact), res |-> None]

InFrame(t) ==
    /\ call # None
    /\ call[1].fn = "create_bundle"
    /\ call[1].t = t
    /\ call[1].out = None

\* A create_bundle that does not validate the policy; no specification uses it.
CreateBundle_SkipPolicy(t, h, trace, capabilities, cost_ledger, policy_ir) ==
    LET checks == <<ExecutionTrace_validate(trace), CapabilityManifest_validate(capabilities),
                    CostLedger_validate(cost_ledger)>>
        bad == {i \in 1..3 : ~checks[i].ok}
        json == <<to_value(trace), to_value(capabilities), to_value(cost_ledger),
                  to_value(policy_ir)>>
        frame == [fn |-> "create_bundle", t |-> t, h |-> h,
                  in |-> <<trace, capabilities, cost_ledger, policy_ir>>,
                  json |-> <<>>, ids |-> <<>>, out |-> None]
    IN /\ call = None
       /\ threads[t].pc = "idle"
       /\ arc[h] # 0
       /\ IF bad # {}
          THEN /\ call' = Some([frame EXCEPT
                                  !.out = Some(checks[CHOOSE i \in bad : \A j \in bad : i <= j])])
               /\ threads' = threads
          ELSE /\ call' = Some([frame EXCEPT !.json = json])
               /\ threads' = [threads EXCEPT ![t] = StoreCall(h, json[1])]
       /\ UNCHANGED <<arc, heap, live>>
       /\ UNCHANGED <<config, vconfig>>
       /\ UNCHANGED engineVars
       /\ UNCHANGED bundleVars

\* artifacts.rs:75-90: the four validations, the four serialisations, and the
\* entry into the first store_artifact.
CreateBundle(t, h, trace, capabilities, cost_ledger, policy_ir) ==
    LET checks == <<ExecutionTrace_validate(trace), CapabilityManifest_validate(capabilities),
                    CostLedger_validate(cost_ledger), PolicyIR_validate(policy_ir)>>
        bad == {i \in 1..4 : ~checks[i].ok}
        json == <<to_value(trace), to_value(capabilities), to_value(cost_ledger),
                  to_value(policy_ir)>>
        frame == [fn |-> "create_bundle", t |-> t, h |-> h,
                  in |-> <<trace, capabilities, cost_ledger, policy_ir>>,
                  json |-> <<>>, ids |-> <<>>, out |-> None]
    IN /\ call = None
       /\ threads[t].pc = "idle"
       /\ arc[h] # 0
       /\ IF bad # {}
          THEN /\ call' = Some([frame EXCEPT
                                  !.out = Some(checks[CHOOSE i \in bad : \A j \in bad : i <= j])])
               /\ threads' = threads
          ELSE /\ call' = Some([frame EXCEPT !.json = json])
               /\ threads' = [threads EXCEPT ![t] = StoreCall(h, json[1])]
       /\ UNCHANGED <<arc, heap, live>>
       /\ UNCHANGED <<config, vconfig>>
       /\ UNCHANGED engineVars
       /\ UNCHANGED bundleVars

\* artifacts.rs:87-101: a store_artifact has returned.  Its error is the
\* result (?); otherwise the next artifact is stored, and after the fourth
\* come verify_integrity of each, verify_invariants with no invariants under
\* the default configuration, and generate_bundle of the one witness.
BundleStep(t) ==
    LET f == call[1]
        r == threads[t].res[1]
        ids == Append(f.ids, r.val)
        torn == {i \in 1..4 : ~validate_artifact_integrity(ids[i], f.json[i])}
        w == verify_invariants(EngineConfig_default, f.in[1], f.in[2], f.in[3], f.in[4],
                               <<>>, <<>>)
        result ==
            IF torn # {}
            THEN LET i == CHOOSE x \in torn : \A y \in torn : x <= y
                 IN Err([kind |-> "IntegrityFailure", artifact_id |-> ids[i],
                         expected |-> ids[i], actual |-> compute_content_hash(f.json[i])])
            ELSE IF ~w.ok THEN w
            ELSE generate_bundle(<<w.val>>)
    IN /\ InFrame(t)
       /\ threads[t].pc = "done"
       /\ IF ~r.ok
          THEN /\ call' = Some([f EXCEPT !.out = Some(r)])
               /\ threads' = [threads EXCEPT ![t] = IdleThread]
          ELSE IF Len(ids) < 4
          THEN /\ call' = Some([f EXCEPT !.ids = ids])
               /\ threads' = [threads EXCEPT ![t] = StoreCall(f.h, f.json[Len(ids) + 1])]
          ELSE /\ call' = Some([f EXCEPT !.ids = ids, !.out = Some(result)])
               /\ threads' = [threads EXCEPT ![t] = IdleThread]
       /\ UNCHANGED <<arc, heap, live>>
       /\ UNCHANGED <<config, vconfig>>
       /\ UNCHANGED engineVars
       /\ UNCHANGED bundleVars

CreateNext ==
    \/ \E t \in {"t2"} : /\ threads[t].pc = "idle"
                       /\ \E op \in {"store", "retrieve", "clear", "clone"},
                                h \in Handles,
                                v \in {JObj(<<<<"note", JStr("y")>>>>), to_value(TraceA)} :
                             Call(t, op, h, v)
    \/ \E t \in {"t1"}, h \in Handles, trace \in {TraceA, TraceNoId},
          capabilities \in {CapsA, CapsNoAgent}, cost_ledger \in {LedgerA, LedgerNaN},
          policy_ir \in {PolicyA, PolicyNoId} :
          CreateBundle(t, h, trace, capabilities, cost_ledger, policy_ir)
    \/ \E t \in Threads : BundleStep(t)
    \/ \E t \in Threads : Acquire(t)
    \/ \E t \in Threads : Insert(t)
    \/ \E t \in Threads : Commit(t)
    \/ \E t \in Threads : Drain(t)
    \/ \E t \in Threads : Erase(t)
    \/ \E t \in Threads : Release(t)
    \/ \E t \in Threads : Read(t)
    \/ \E t \in Threads : CloneCopy(t)
    \/ \E t \in Threads : ~InFrame(t) /\ Finish(t)

CreateSpec == StoreInit /\ [][CreateNext]_vars

(***************************************************************************)
(* dsl.rs.  A text is a sequence of tokens, each a string the parser never *)
(* looks into except where a table below says so: a blank, a newline, a    *)
(* punctuation mark, a keyword or another word.  Adjacent tokens stand for *)
(* the text written without a gap ("always" followed by "x" is "alwaysx"). *)
(***************************************************************************)
Whitespace == {" ", "\n"}

\* str::trim
trim(s) ==
    LET first == CHOOSE i \in 1..Len(s) + 1 :
                     /\ i = Len(s) + 1 \/ s[i] \notin Whitespace
                     /\ \A j \in 1..i - 1 : s[j] \in Whitespace
        last == CHOOSE i \in 0..Len(s) :
                    /\ i = 0 \/ s[i] \notin Whitespace
                    /\ \A j \in i + 1..Len(s) : s[j] \in Whitespace
    IN SubSeq(s, first, last)

\* \w: the tokens made of letters, digits and underscores.
IsWord(token) == token \notin Whitespace \cup {"#", ":", "[", "]", ","}

\* \s*: the first place from j on that holds no whitespace.
skip(text, j) ==
    CHOOSE k \in j..Len(text) + 1 :
        /\ k = Len(text) + 1 \/ text[k] \notin Whitespace
        /\ \A m \in j..k - 1 : text[m] \in Whitespace

\* (\w+): the longest run of word tokens from j on.
word_at(text, j) ==
    LET e == CHOOSE k \in j - 1..Len(text) :
                 /\ k = Len(text) \/ ~IsWord(text[k + 1])
                 /\ \A m \in j..k : IsWord(text[m])
    IN Join(SubSeq(text, j, e), "")

\* InvariantDSL::strip_comments, of the lines str::lines gives.
strip_comments(lines) ==
    LET cut(line) ==
            LET marks == {i \in 1..Len(line) : line[i] = "#"}
            IN IF marks = {} THEN trim(line)
               ELSE trim(SubSeq(line, 1, (CHOOSE i \in marks : \A j \in marks : i <= j) - 1))
        kept == SelectSeq([i \in 1..Len(lines) |-> cut(lines[i])], LAMBDA l : l # <<>>)
        joined[n \in 0..Len(kept)] ==
            IF n = 0 THEN <<>>
            ELSE IF n = 1 THEN kept[1]
            ELSE joined[n - 1] \o <<"\n">> \o kept[n]
    IN joined[Len(kept)]

\* InvariantDSL::extract_name: the leftmost match of invariant\s+(\w+) in the
\* whole text.  The tokens that end in "invariant" are listed.
extract_name(spec_str) ==
    LET hits == {i \in 1..Len(spec_str) :
                    /\ spec_str[i] \in {"invariant", "loop_invariant"}
                    /\ skip(spec_str, i + 1) > i + 1
                    /\ skip(spec_str, i + 1) <= Len(spec_str)
                    /\ IsWord(spec_str[skip(spec_str, i + 1)])}
    IN IF hits = {}
       THEN Err(ParseError("invariant_spec", "missing invariant name declaration"))
       ELSE LET i == CHOOSE h \in hits : \A g \in hits : h <= g
            IN Ok(word_at(spec_str, skip(spec_str, i + 1)))

\* ProofType::from_str; to_lowercase is listed for the one token with capitals.
ProofType_from_str(s) ==
    LET lower == IF s = "EconomicInvariance" THEN "economicinvariance" ELSE s
    IN CASE lower \in {"behavioral_soundness", "behavioralsoundness"} ->
                Ok("BehavioralSoundness")
         [] lower \in {"authority_non_escalation", "authoritynonescalation"} ->
                Ok("AuthorityNonEscalation")
         [] lower \in {"economic_invariance", "economicinvariance"} ->
                Ok("EconomicInvariance")
         [] lower \in {"semantic_preservation", "semanticpreservation"} ->
                Ok("SemanticPreservation")
         [] OTHER -> Err([kind |-> "UnknownProofType", value |-> s])

\* InvariantDSL::extract_type: the leftmost match of type:\s*(\w+).
extract_type(spec_str) ==
    LET hits == {i \in 1..Len(spec_str) - 1 :
                    /\ spec_str[i] = "type"
                    /\ spec_str[i + 1] = ":"
                    /\ skip(spec_str, i + 2) <= Len(spec_str)
                    /\ IsWord(spec_str[skip(spec_str, i + 2)])}
    IN IF hits = {} THEN None
       ELSE LET i == CHOOSE h \in hits : \A g \in hits : h <= g
                r == ProofType_from_str(word_at(spec_str, skip(spec_str, i + 2)))
            IN IF r.ok THEN Some(r.val) ELSE None

\* InvariantDSL::extract_field_value: the leftmost match of {field}:\s*(.+),
\* the capture running to the end of its line, trimmed.  The value is kept
\* as tokens.
extract_field_value(spec_str, field_name) ==
    LET hits == {i \in 1..Len(spec_str) - 1 :
                    /\ spec_str[i] = field_name
                    /\ spec_str[i + 1] = ":"
                    /\ skip(spec_str, i + 2) <= Len(spec_str)}
    IN IF hits = {} THEN None
       ELSE LET i == CHOOSE h \in hits : \A g \in hits : h <= g
                j == skip(spec_str, i + 2)
                e == CHOOSE k \in j..Len(spec_str) :
                         /\ k = Len(spec_str) \/ spec_str[k + 1] = "\n"
                         /\ \A m \in j..k : spec_str[m] # "\n"
            IN Some(trim(SubSeq(spec_str, j, e)))

\* InvariantDSL::parse_temporal_properties_list
parse_temporal_properties_list(props_str) ==
    IF props_str # None /\ props_str[1] # <<>>
       /\ props_str[1][1] = "[" /\ props_str[1][Len(props_str[1])] = "]"
    THEN LET s == SubSeq(props_str[1], 2, Len(props_str[1]) - 1)
             split[n \in 0..Len(s)] ==
                 IF n = 0 THEN <<<<>>>>
                 ELSE IF s[n] = "," THEN Append(split[n - 1], <<>>)
                 ELSE [split[n - 1] EXCEPT ![Len(split[n - 1])] = Append(@, s[n])]
             parts == split[Len(s)]
             kept == SelectSeq([i \in 1..Len(parts) |-> trim(parts[i])], LAMBDA p : p # <<>>)
         IN [i \in 1..Len(kept) |-> Join(kept[i], "")]
    ELSE <<>>

\* InvariantDSL::parse_invariant, extract_fields included.
parse_invariant(lines) ==
    LET spec_str_clean == strip_comments(lines)
        name == extract_name(spec_str_clean)
        text(field_name) ==
            LET value == extract_field_value(spec_str_clean, field_name)
            IN IF value = None THEN None ELSE Some(Join(value[1], ""))
        temporal_properties ==
            parse_temporal_properties_list(
                extract_field_value(spec_str_clean, "temporal_properties"))
        invariant_type ==
            IF extract_type(spec_str_clean) = None THEN "BehavioralSoundness"
            ELSE extract_type(spec_str_clean)[1]
    IN IF ~name.ok THEN name
       ELSE Ok(InvariantSpec(name.val,
                             IF text("description") = None THEN ""
                             ELSE text("description")[1],
                             text("precondition"), text("postcondition"),
                             temporal_properties, invariant_type))

\* A variant that accepts an operator with nothing after it; no specification
\* uses it.
parse_temporal_property_AllowEmpty(prop_str) ==
    LET trimmed == trim(prop_str)
    IN IF trimmed # <<>> /\ trimmed[1] \in {"always", "eventually", "until", "next"}
       THEN Ok([operator |-> trimmed[1], expression |-> Join(trim(Tail(trimmed)), "")])
       ELSE Err(ParseError("temporal_property",
                           "unknown temporal operator in: " \o Join(trimmed, "")))

\* InvariantDSL::parse_temporal_property.  No operator is the prefix of
\* another, so the order of the loop over them shows in no result.
parse_temporal_property(prop_str) ==
    LET trimmed == trim(prop_str)
        operators == <<"always", "eventually", "until", "next">>
    IN IF \E i \in 1..Len(operators) : trimmed # <<>> /\ trimmed[1] = operators[i]
       THEN LET op == trimmed[1]
                expr == trim(Tail(trimmed))
            IN IF expr = <<>>
               THEN Err(ParseError("temporal_property",
                                   "operator '" \o op \o "' requires an expression"))
               ELSE Ok([operator |-> op, expression |-> Join(expr, "")])
       ELSE Err(ParseError("temporal_property",
                           "unknown temporal operator in: " \o Join(trimmed, "")))

(***************************************************************************)
(* FnSpec: calls of the functions that hold no state (the hasher, the DSL  *)
(* parser, the validation of the artifacts), each over a bounded set of    *)
(* inputs; call records the last one.                                      *)
(***************************************************************************)
\* Structured values: scalars, arrays and objects, nested, the same objects
\* written with their keys in two orders.
HashValues ==
    LET a == JObj(<<<<"metadata", JNum(1)>>, <<"note", JNum(2)>>>>)
        ar == JObj(<<<<"note", JNum(2)>>, <<"metadata", JNum(1)>>>>)
        b == JObj(<<<<"metadata", JNum(2)>>, <<"note", JNum(1)>>>>)
    IN {JStr("x"), JStr("1"), JNum(1), JNum(2), JObj(<<>>), JArr(<<>>),
        JArr(<<JNum(1), JNum(2)>>), JArr(<<JNum(2), JNum(1)>>),
        a, ar, b, JObj(<<<<"metadata", JNum(1)>>>>),
        JObj(<<<<"metadata", a>>>>), JObj(<<<<"metadata", ar>>>>), JObj(<<<<"metadata", b>>>>),
        JObj(<<<<"note", a>>>>),
        JArr(<<a>>), JArr(<<ar>>), JArr(<<a, b>>), JArr(<<b, ar>>)}

\* types.rs:470: compute_content_hash of two values, or twice of the same one.
Hash(a, b) ==
    /\ call = None
    /\ call' = Some([fn |-> "compute_content_hash", in |-> <<a, b>>,
                     out |-> <<compute_content_hash(a), compute_content_hash(b)>>])
    /\ UNCHANGED <<config, vconfig>>
    /\ UNCHANGED engineVars
    /\ UNCHANGED bundleVars
    /\ UNCHANGED storeVars

\* The artifacts handed to validate: those of the engine calls, traces at and
\* over the step ceiling with and without id, and every kind of total.
ValidateInputs ==
    [ExecutionTrace |->
        EngineTraces \cup {ExecutionTrace("t3", Repeat(Step, MAX_STEPS), <<>>),
                           ExecutionTrace("", Repeat(Step, MAX_STEPS + 1), <<>>)},
     CapabilityManifest |-> EngineCaps \cup {CapabilityManifest("", "", <<>>, <<>>, <<>>)},
     CostLedger |->
        EngineLedgers \cup {LedgerZero, CostLedger("l1", <<>>, [inf |-> 1], <<>>),
                            CostLedger("l1", <<>>, [inf |-> -1], <<>>),
                            CostLedger("", <<>>, Fin(-1), <<>>), CostLedger("", <<>>, NaN, <<>>)},
     PolicyIR |-> EnginePolicies]

\* types.rs:28, 83, 136, 194: validate of one artifact.
Validate(kind, artifact) ==
    /\ call = None
    /\ call' = Some([fn |-> "validate", in |-> <<kind, artifact>>,
                     out |-> CASE kind = "ExecutionTrace" -> ExecutionTrace_validate(artifact)
                               [] kind = "CapabilityManifest" ->
                                     CapabilityManifest_validate(artifact)
                               [] kind = "CostLedger" -> CostLedger_validate(artifact)
                               [] kind = "PolicyIR" -> PolicyIR_validate(artifact)])
    /\ UNCHANGED <<config, vconfig>>
    /\ UNCHANGED engineVars
    /\ UNCHANGED bundleVars
    /\ UNCHANGED storeVars


\* dsl.rs:119: parse_temporal_property of one text.
ParseTemporal(prop_str) ==
    /\ call = None
    /\ call' = Some([fn |-> "parse_temporal_property", in |-> prop_str,
                     out |-> parse_temporal_property(prop_str)])
    /\ UNCHANGED <<config, vconfig>>
    /\ UNCHANGED engineVars
    /\ UNCHANGED bundleVars
    /\ UNCHANGED storeVars

\* The lines of the texts handed to parse_invariant: declarations, a comment,
\* a blank line, fields with and without value, and a description that ends
\* in the word invariant.
DslLines ==
    {<<" ", "invariant", " ", "cost_bound">>,
     <<"invariant", " ", "test_inv", " ", "#", " ", "inline">>,
     <<"#", " ", "invariant", " ", "hidden">>,
     <<" ">>,
     <<"description", ":", " ", "loop", " ", "invariant">>,
     <<"precondition", ":", " ", "x">>,
     <<"postcondition", ":">>,
     <<"type", ":", " ", "EconomicInvariance">>,
     <<"type", ":", " ", "fast">>,
     <<"temporal_properties", ":", " ", "[", "always", " ", "x", ",", ",", " ", "next", " ", "x", "]">>}

\* dsl.rs:33: parse_invariant of one text, given by its lines.
ParseInvariant(lines) ==
    /\ call = None
    /\ call' = Some([fn |-> "parse_invariant", in |-> lines, out |-> parse_invariant(lines)])
    /\ UNCHANGED <<config, vconfig>>
    /\ UNCHANGED engineVars
    /\ UNCHANGED bundleVars
    /\ UNCHANGED storeVars

FnNext ==
    \/ \E a \in HashValues, b \in HashValues : Hash(a, b)
    \/ \E kind \in DOMAIN ValidateInputs : \E artifact \in ValidateInputs[kind] :
          Validate(kind, artifact)
    \/ \E n \in 0..MaxTokens :
          \E prop_str \in [1..n -> {" ", "always", "eventually", "until", "next",
                                  "Always", "al", "x", "safe"}] :
          ParseTemporal(prop_str)
    \/ \E n \in 0..MaxLines : \E lines \in [1..n -> DslLines] : ParseInvariant(lines)

FnSpec == StoreInit /\ [][FnNext]_vars

(***************************************************************************)
(* Vocabulary of the properties: the data-model invariants, stated on the  *)
(* fields                                                                  *)
(***************************************************************************)
TraceOk(t) == t.id # "" /\ Len(t.steps) <= MAX_STEPS
CapsOk(c) == c.id # "" /\ c.agent_id # ""
LedgerOk(l) ==
    /\ l.id # ""
    /\ "fin" \in DOMAIN l.total_cost
    /\ l.total_cost.fin >= 0
PolicyOk(p) == p.id # ""
ArtifactsOk(t, c, l, p) == TraceOk(t) /\ CapsOk(c) /\ LedgerOk(l) /\ PolicyOk(p)
ArgsOk == ArtifactsOk(args.trace, args.capabilities, args.cost_ledger, args.policy_ir)

\* The error of the first invalid artifact, in the order trace, capability
\* manifest, cost ledger, policy.
FirstInvalidError(t, c, l, p) ==
    IF ~TraceOk(t) THEN ExecutionTrace_validate(t).err
    ELSE IF ~CapsOk(c) THEN CapabilityManifest_validate(c).err
    ELSE IF ~LedgerOk(l) THEN CostLedger_validate(l).err
    ELSE PolicyIR_validate(p).err

IsTimeout(cex) == cex.error_type = "timeout"
IsPrefix(a, b) == Len(a) <= Len(b) /\ SubSeq(b, 1, Len(a)) = a

(***************************************************************************)
(* C8: verify_invariants validates the four artifacts before anything      *)
(* else.  If any artifact is invalid the call returns the validation error *)
(* of the first invalid one in the order trace, capability manifest, cost  *)
(* ledger, policy; it returns no witness and evaluates no invariant, even  *)
(* when the invariant list also exceeds max_invariants.                    *)
(***************************************************************************)
C8_ValidationFirst ==
    (pc # "idle" /\ ~ArgsOk) =>
        /\ pc = "done"
        /\ ret = Some(Err(FirstInvalidError(args.trace, args.capabilities,
                                            args.cost_ledger, args.policy_ir)))
        /\ evaluated = <<>>
        /\ counterexamples = <<>>

\* Two artifacts are invalid and the list is over the ceiling: the error is
\* that of the capability manifest, the first invalid one.
C8_Witness ==
    /\ pc = "done"
    /\ TraceOk(args.trace)
    /\ ~CapsOk(args.capabilities)
    /\ ~LedgerOk(args.cost_ledger)
    /\ Len(args.invariants) > config.max_invariants
    /\ ret = Some(Err(CapabilityManifest_validate(args.capabilities).err))

(***************************************************************************)
(* C9: with valid artifacts, verify_invariants returns                     *)
(* ResourceLimit{resource: "invariants", limit: max_invariants, actual:    *)
(* len} whenever the list is longer than max_invariants, before any        *)
(* invariant is evaluated and without a witness; a list of at most         *)
(* max_invariants invariants (exactly max_invariants included) is never    *)
(* rejected.                                                               *)
(***************************************************************************)
C9_InvariantCeiling ==
    (pc # "idle" /\ ArgsOk) =>
        /\ Len(args.invariants) > config.max_invariants =>
              /\ pc = "done"
              /\ ret = Some(Err([kind |-> "ResourceLimit", resource |-> "invariants",
                                 limit |-> config.max_invariants,
                                 actual |-> Len(args.invariants)]))
              /\ evaluated = <<>>
              /\ counterexamples = <<>>
        /\ Len(args.invariants) <= config.max_invariants =>
              /\ ret # None => ret[1].ok
              /\ pc = "done" => ret # None

\* The default ceiling of 1000 rejects a list of 1001.
C9_Witness ==
    /\ pc = "done"
    /\ ArgsOk
    /\ config.max_invariants = 1000
    /\ Len(args.invariants) = 1001
    /\ ~ret[1].ok
    /\ ret[1].err.kind = "ResourceLimit"

(***************************************************************************)
(* C10: cooperative timeout.  The elapsed time is looked at before each    *)
(* invariant evaluation only.  An iteration that finds it above            *)
(* timeout_secs appends exactly one "timeout" counterexample named for the *)
(* invariant about to be evaluated, evaluates nothing further and leaves   *)
(* the loop; an iteration that does not, evaluates its invariant.  The     *)
(* counterexamples collected are never dropped, the call still returns Ok  *)
(* with a witness carrying them, so a witness holds at most one timeout    *)
(* counterexample, and it is the last one.                                 *)
(***************************************************************************)
C10_State ==
    /\ \A i \in 1..Len(counterexamples) :
          IsTimeout(counterexamples[i]) => i = Len(counterexamples)
    /\ (ret # None /\ ret[1].ok) => ret[1].val.counterexamples = counterexamples
    /\ (pc = "done" /\ ArgsOk /\ Len(args.invariants) <= config.max_invariants) =>
          ret # None /\ ret[1].ok
    /\ (pc \in {"exit", "done"} /\ counterexamples # <<>>
        /\ IsTimeout(counterexamples[Len(counterexamples)])) =>
          /\ Len(evaluated) < Len(args.invariants)
          /\ counterexamples[Len(counterexamples)].invariant_name =
                args.invariants[Len(evaluated) + 1].name
    /\ evaluated = [i \in 1..Len(evaluated) |-> i]

C10_Step ==
    /\ IsPrefix(counterexamples, counterexamples')
    /\ pc = "loop" =>
          IF clock' - start_time > config.timeout_secs
          THEN /\ Len(counterexamples') = Len(counterexamples) + 1
               /\ IsTimeout(counterexamples'[Len(counterexamples')])
               /\ counterexamples'[Len(counterexamples')].invariant_name =
                     args.invariants[idx].name
               /\ evaluated' = evaluated
               /\ pc' = "exit"
          ELSE /\ evaluated' = Append(evaluated, idx)
               /\ Len(counterexamples') <= Len(counterexamples) + 1
               /\ \A i \in 1..Len(counterexamples') : ~IsTimeout(counterexamples'[i])

C10_CooperativeTimeout == [](C10_State) /\ [][C10_Step]_vars

\* A violation was collected, then the second iteration timed out: the witness
\* returned holds both, the timeout last.
C10_Witness ==
    /\ pc = "done"
    /\ ret[1].ok
    /\ Len(ret[1].val.counterexamples) = 2
    /\ ret[1].val.counterexamples[1].error_type = "violation"
    /\ ret[1].val.counterexamples[2].error_type = "timeout"
    /\ evaluated = <<1>>

(***************************************************************************)
(* Properties of the bundle workflow (Spec)                                *)
(***************************************************************************)
Verified == phase = "verified"
Generated == gen[1].val
Checked == bundle[1]
Result == bresult[1]
Edited(fields) == edit # None /\ edit[1].field \in fields

WitnessOk(w) ==
    /\ w.proof_id # ""
    /\ ArtifactsOk(w.execution_trace, w.capability_manifest, w.cost_ledger, w.policy_ir)

StructurallyValid(b) ==
    /\ b.id # ""
    /\ Len(b.witnesses) <= 100
    /\ \A i \in 1..Len(b.witnesses) : WitnessOk(b.witnesses[i])

\* The description of the validation error of a bundle that is not
\* structurally valid.
StructureError(b) ==
    IF b.id = "" THEN "validation error on 'id': ProofBundle must have a non-empty ID"
    ELSE IF Len(b.witnesses) > 100
    THEN "bundle_witnesses limit exceeded: " \o ToString(Len(b.witnesses)) \o " > 100"
    ELSE LET w == b.witnesses[SetMin({i \in 1..Len(b.witnesses) : ~WitnessOk(b.witnesses[i])})]
         IN IF w.proof_id = ""
            THEN "validation error on 'proof_id': ProofWitness must have a non-empty proof ID"
            ELSE to_string(FirstInvalidError(w.execution_trace, w.capability_manifest,
                                             w.cost_ledger, w.policy_ir))

\* The proof id of a witness's content: its four artifact ids and its invariant
\* names.
FreshProofId(w) ==
    compute_proof_id(w.execution_trace, w.capability_manifest, w.cost_ledger,
                     w.policy_ir, w.invariants)

\* The verifier's re-run of the engine on a witness of the checked bundle.
Rerun(w) ==
    verify_invariants(vconfig, w.execution_trace, w.capability_manifest, w.cost_ledger,
                      w.policy_ir, w.invariants, vclk)

PassesChecks(b) == StructurallyValid(b) /\ compute_bundle_id(b) = b.id

\* No reading of the verifier's clock is past the timeout.
NoTimeout == \A i \in 2..Len(vclk) : vclk[i] - vclk[1] <= vconfig.timeout_secs

(***************************************************************************)
(* C1 (as stated): for every bundle b returned by generate_bundle and      *)
(* every string s different from b.id, verify_bundle of b with its id      *)
(* replaced by s returns success=false, an error reporting a bundle id     *)
(* mismatch, and an empty witness_results list.                            *)
(***************************************************************************)
C1_Original ==
    (Verified /\ Edited({"id"})) =>
        /\ Result.success = FALSE
        /\ Result.error = Some(BundleIdMismatch(Generated.id, Checked.id))
        /\ Result.witness_results = <<>>

(***************************************************************************)
(* C1 (amended): verify_bundle of a generated bundle with its id replaced  *)
(* by s # b.id returns success=false, an error and no witness results; the *)
(* error reports the bundle id mismatch (expected the generated id, got s) *)
(* when s is non-empty and the bundle holds at most 100 witnesses; for     *)
(* s = "" it is the validation error on 'id', and for a bundle of more     *)
(* than 100 witnesses the bundle_witnesses limit error.                    *)
(***************************************************************************)
C1_IdTamper ==
    (Verified /\ Edited({"id"})) =>
        /\ Checked.id # Generated.id
        /\ Result.success = FALSE
        /\ Result.witness_results = <<>>
        /\ Result.error =
             Some(IF Checked.id = ""
                  THEN "validation error on 'id': ProofBundle must have a non-empty ID"
                  ELSE IF Len(Checked.witnesses) > 100
                  THEN "bundle_witnesses limit exceeded: "
                           \o ToString(Len(Checked.witnesses)) \o " > 100"
                  ELSE BundleIdMismatch(Generated.id, Checked.id))

C1_Witness ==
    /\ Verified
    /\ Edited({"id"})
    /\ Checked.id = "forged"
    /\ Len(Checked.witnesses) <= 100
    /\ Result.error = Some(BundleIdMismatch(Generated.id, "forged"))
    /\ Result.witness_results = <<>>

(***************************************************************************)
(* C2: starting from a generated bundle for which verify_bundle returns    *)
(* success=true, any alteration of a witness's embedded artifact content,  *)
(* of its invariant list or of its stored counterexamples makes            *)
(* verify_bundle return success=false.                                     *)
(***************************************************************************)
C2_AlterationDetected ==
    (/\ Verified
     /\ Edited({"execution_trace", "capability_manifest", "cost_ledger", "policy_ir",
                "invariants", "counterexamples"})
     /\ verify_bundle(vconfig, Generated, vclk).success) =>
        Result.success = FALSE

(***************************************************************************)
(* C3: round trip.  generate_bundle over one or more witnesses with zero   *)
(* counterexamples returned by verify_invariants, followed by              *)
(* verify_bundle under the same engine configuration and without timeout,  *)
(* returns success=true, error=None, one witness result per witness, each  *)
(* with success=true, counterexample_count=0 and invariant_count equal to  *)
(* the witness's number of invariants.                                     *)
(***************************************************************************)
C3_RoundTrip ==
    (/\ Verified
     /\ edit = None
     /\ config = vconfig
     /\ NoTimeout
     /\ \A i \in 1..Len(Generated.witnesses) :
           Generated.witnesses[i].counterexamples = <<>>) =>
        /\ Result.success = TRUE
        /\ Result.error = None
        /\ Len(Result.witness_results) = Len(Generated.witnesses)
        /\ \A i \in 1..Len(Generated.witnesses) :
              /\ Result.witness_results[i].success = TRUE
              /\ Result.witness_results[i].counterexample_count = 0
              /\ Result.witness_results[i].invariant_count =
                    Len(Generated.witnesses[i].invariants)

\* The same round trip over at most 100 witnesses.
C3_RoundTripWithinCeiling ==
    (Verified /\ Len(Checked.witnesses) <= 100) => C3_RoundTrip

(***************************************************************************)
(* C4: verify_bundle always returns a result and fails fast on structure:  *)
(* for a bundle with an empty id, more than 100 witnesses or an invalid    *)
(* witness the result has success=false, the validation error's            *)
(* description as error and no witness results; a structurally valid       *)
(* bundle, one of exactly 100 witnesses included, gets no validation       *)
(* error.                                                                  *)
(***************************************************************************)
C4_FailFast ==
    Verified =>
        /\ bresult # None
        /\ ~StructurallyValid(Checked) =>
              Result = [bundle_id |-> Checked.id, success |-> FALSE,
                        witness_results |-> <<>>,
                        error |-> Some(StructureError(Checked))]
        /\ StructurallyValid(Checked) =>
              \/ Result.error = None /\ Len(Result.witness_results) = Len(Checked.witnesses)
              \/ /\ Result.error = Some(BundleIdMismatch(compute_bundle_id(Checked), Checked.id))
                 /\ compute_bundle_id(Checked) # Checked.id

\* A bundle of exactly 100 valid witnesses is verified witness by witness.
C4_Witness ==
    /\ Verified
    /\ Len(Checked.witnesses) = 100
    /\ StructurallyValid(Checked)
    /\ Result.error = None
    /\ Len(Result.witness_results) = 100

(***************************************************************************)
(* C5 (as stated): the verifier's recomputed bundle id is derived from the *)
(* ordered proof ids only, so for any bundle it equals the id              *)
(* generate_bundle would assign to the same witness list, whatever the     *)
(* metadata contains.                                                      *)
(***************************************************************************)
C5_Original ==
    bundle # None => compute_bundle_id(Checked) = BundleIdOf(Checked.witnesses)

(***************************************************************************)
(* C5 (amended): the verifier's recomputed bundle id is derived from the   *)
(* ordered proof ids and the bundle's metadata: it equals the id           *)
(* generate_bundle assigns to the same witness list when the metadata is   *)
(* empty and differs from it when the metadata is not, so a generated      *)
(* bundle whose metadata was filled in afterwards fails the bundle-id      *)
(* check.                                                                  *)
(***************************************************************************)
C5_BundleIdFunction ==
    bundle # None =>
        /\ (compute_bundle_id(Checked) = BundleIdOf(Checked.witnesses))
              <=> (Checked.metadata = <<>>)
        /\ (Verified /\ Edited({"metadata"}) /\ StructurallyValid(Checked)) =>
              /\ Result.success = FALSE
              /\ Result.witness_results = <<>>
              /\ Result.error = Some(BundleIdMismatch(compute_bundle_id(Checked),
                                                      Generated.id))

C5_Witness ==
    /\ Verified
    /\ Edited({"metadata"})
    /\ StructurallyValid(Checked)
    /\ Checked.metadata # <<>>
    /\ Checked.id = BundleIdOf(Checked.witnesses)
    /\ Result.success = FALSE

(***************************************************************************)
(* C6 (as stated): for a bundle that passes bundle validation and the      *)
(* bundle-id check, every witness whose stored proof_id differs from the   *)
(* proof id of its embedded artifact ids and invariant names gets a        *)
(* witness result with success=false and an error containing both ids;    *)
(* the overall success is false and the other witnesses are still          *)
(* verified and reported.                                                  *)
(***************************************************************************)
C6_Original ==
    (Verified /\ PassesChecks(Checked)) =>
        \A i \in 1..Len(Checked.witnesses) :
            Checked.witnesses[i].proof_id # FreshProofId(Checked.witnesses[i]) =>
                /\ Len(Result.witness_results) = Len(Checked.witnesses)
                /\ Result.witness_results[i].success = FALSE
                /\ Result.witness_results[i].error =
                      Some(ProofIdMismatch(Checked.witnesses[i].proof_id,
                                           FreshProofId(Checked.witnesses[i])))
                /\ Result.success = FALSE

(***************************************************************************)
(* C6 (amended): as stated, except that the error holds both ids only when *)
(* the re-run of verify_invariants returns a witness; when the witness     *)
(* lists more invariants than the verifier's max_invariants the re-run     *)
(* fails, and the witness result (still success=false) carries the         *)
(* invariants limit error instead.  Every witness of the bundle gets its   *)
(* result, in order.                                                       *)
(***************************************************************************)
C6_ProofIdCheck ==
    (Verified /\ PassesChecks(Checked)) =>
        /\ Len(Result.witness_results) = Len(Checked.witnesses)
        /\ \A j \in 1..Len(Checked.witnesses) :
              /\ Result.witness_results[j].proof_id = Checked.witnesses[j].proof_id
              /\ Result.witness_results[j].invariant_count =
                    Len(Checked.witnesses[j].invariants)
        /\ \A i \in 1..Len(Checked.witnesses) :
              Checked.witnesses[i].proof_id # FreshProofId(Checked.witnesses[i]) =>
                /\ Result.witness_results[i].success = FALSE
                /\ Result.witness_results[i].error =
                      Some(IF Len(Checked.witnesses[i].invariants) > vconfig.max_invariants
                           THEN "invariants limit exceeded: "
                                   \o ToString(Len(Checked.witnesses[i].invariants))
                                   \o " > " \o ToString(vconfig.max_invariants)
                           ELSE ProofIdMismatch(Checked.witnesses[i].proof_id,
                                                FreshProofId(Checked.witnesses[i])))
                /\ Result.success = FALSE

\* The first of two witnesses fails the proof-id check, the second is verified
\* and succeeds.
C6_Witness ==
    /\ Verified
    /\ PassesChecks(Checked)
    /\ Len(Checked.witnesses) = 2
    /\ Checked.witnesses[1].proof_id # FreshProofId(Checked.witnesses[1])
    /\ Result.witness_results[1].error =
          Some(ProofIdMismatch(Checked.witnesses[1].proof_id,
                               FreshProofId(Checked.witnesses[1])))
    /\ Result.witness_results[2].success = TRUE
    /\ Result.success = FALSE

(***************************************************************************)
(* C7: whenever a bundle passes bundle validation and the bundle-id check, *)
(* verify_bundle returns error=None, one witness result per witness in     *)
(* bundle order, and success=true iff every witness result has             *)
(* success=true; a witness result whose proof id matches has success=true  *)
(* iff the re-run of verify_invariants on the witness's artifacts and      *)
(* invariants returned a witness with zero counterexamples.                *)
(***************************************************************************)
C7_BundleResult ==
    (Verified /\ PassesChecks(Checked)) =>
        /\ Result.error = None
        /\ Result.bundle_id = Checked.id
        /\ Len(Result.witness_results) = Len(Checked.witnesses)
        /\ \A i \in 1..Len(Checked.witnesses) :
              Result.witness_results[i].proof_id = Checked.witnesses[i].proof_id
        /\ Result.success = (\A i \in 1..Len(Checked.witnesses) :
                                 Result.witness_results[i].success)
        /\ \A i \in 1..Len(Checked.witnesses) :
              Checked.witnesses[i].proof_id = FreshProofId(Checked.witnesses[i]) =>
                 Result.witness_results[i].success =
                    (/\ Rerun(Checked.witnesses[i]).ok
                     /\ Rerun(Checked.witnesses[i]).val.counterexamples = <<>>)

\* The first of two witnesses re-verifies with a counterexample, the last one
\* without: the bundle fails.
C7_Witness ==
    /\ Verified
    /\ PassesChecks(Checked)
    /\ Len(Checked.witnesses) = 2
    /\ Checked.witnesses[1].proof_id = FreshProofId(Checked.witnesses[1])
    /\ Result.witness_results[1].success = FALSE
    /\ Result.witness_results[1].counterexample_count = 1
    /\ Result.witness_results[2].success = TRUE
    /\ Result.success = FALSE

(***************************************************************************)
(* C11: a failing single check degrades to a counterexample and does not   *)
(* abort the batch.  An iteration that is not timed out appends exactly    *)
(* one "check_error" counterexample for an invariant with an empty name,   *)
(* exactly one "violation" counterexample carrying the invariant type for  *)
(* an invariant whose check returns false, and nothing for a passing one;  *)
(* in all three cases the loop goes on with the next invariant in input    *)
(* order, and the call returns Ok.                                         *)
(***************************************************************************)
C11_Contribution(invariant) ==
    IF invariant.name = ""
    THEN <<[invariant_name |-> "", error_type |-> "check_error",
            details |-> [obj |-> <<<<"error",
                [str |-> "validation error on 'name': InvariantSpec must have a non-empty name"]>>>>],
            step_index |-> <<>>]>>
    ELSE IF ~check_invariant(args.trace, args.capabilities, args.cost_ledger,
                             args.policy_ir, invariant).val
    THEN <<[invariant_name |-> invariant.name, error_type |-> "violation",
            details |-> [obj |-> <<<<"reason", [str |-> "Invariant violated"]>>,
                                   <<"invariant_type",
                                     [str |-> as_str(invariant.invariant_type)]>>>>],
            step_index |-> <<>>]>>
    ELSE <<>>

C11_Step ==
    (pc = "loop" /\ ~(clock' - start_time > config.timeout_secs)) =>
        /\ counterexamples' = counterexamples \o C11_Contribution(args.invariants[idx])
        /\ evaluated' = Append(evaluated, idx)
        /\ idx < Len(args.invariants) => pc' = "loop" /\ idx' = idx + 1
        /\ idx = Len(args.invariants) => pc' = "exit"

C11_State ==
    /\ pc = "loop" => idx = Len(evaluated) + 1 /\ idx <= Len(args.invariants)
    /\ (pc = "done" /\ ret[1].ok
        /\ \A i \in 1..Len(counterexamples) : ~IsTimeout(counterexamples[i])) =>
          evaluated = [i \in 1..Len(args.invariants) |-> i]
    /\ (pc = "done" /\ evaluated # <<>>) => ret[1].ok

C11_DegradeToCounterexample == [](C11_State) /\ [][C11_Step]_vars

\* An invariant without a name, then a violated one: both are evaluated, each
\* leaves its counterexample, and the call returns Ok.
C11_Witness ==
    /\ pc = "done"
    /\ ret[1].ok
    /\ evaluated = <<1, 2>>
    /\ Len(ret[1].val.counterexamples) = 2
    /\ ret[1].val.counterexamples[1].error_type = "check_error"
    /\ ret[1].val.counterexamples[2].error_type = "violation"

(***************************************************************************)
(* C12: the proof id depends only on the four artifact ids and the ordered *)
(* list of invariant names.  The call of the behaviour is compared with    *)
(* every other successful call over OtherTraces .. OtherClocks: the two    *)
(* proof ids are equal if and only if the trace id, capabilities id, cost  *)
(* ledger id, policy id and ordered invariant names are, whatever the      *)
(* payloads, invariant types and preconditions, configurations, clock      *)
(* readings and counterexamples of the two calls.                          *)
(***************************************************************************)
PolicyB == PolicyIR("p2", <<>>, <<>>, <<>>)
OtherTraces == {TraceA, TraceA2, TraceB}
OtherCaps == {CapsA2, CapsB}
OtherLedgers == {LedgerA2, LedgerZero}
OtherPolicies == {PolicyA2, PolicyB}
OtherInvariants == {InvBehavPre, InvEcon, InvEconAsSem}
\* The clock stands still, or jumps to some time right after the first reading.
OtherClocks == {c \in Clocks : c[2] = c[MaxInvLen + 1]}

NamesOf(invariants) == [i \in 1..Len(invariants) |-> invariants[i].name]

\* What identifies a proof, and what else a successful call shows.
CallSummary(cfg, trace, capabilities, cost_ledger, policy_ir, invariants, w) ==
    [trace_id |-> trace.id, capabilities_id |-> capabilities.id,
     cost_ledger_id |-> cost_ledger.id, policy_ir_id |-> policy_ir.id,
     invariant_names |-> NamesOf(invariants),
     proof_id |-> w.proof_id,
     steps |-> Len(trace.steps), types |-> [i \in 1..Len(invariants) |-> invariants[i].invariant_type],
     max_invariants |-> cfg.max_invariants,
     counterexamples |-> Len(w.counterexamples)]

OtherCalls ==
    {CallSummary(x[1], x[2], x[3], x[4], x[5], x[6],
                 verify_invariants(x[1], x[2], x[3], x[4], x[5], x[6], x[7]).val) :
        x \in {y \in Configs \X OtherTraces \X OtherCaps \X OtherLedgers \X OtherPolicies
                      \X SeqsUpTo(OtherInvariants, MaxInvLen) \X OtherClocks :
                  Len(y[6]) <= y[1].max_invariants}}

SameProofInputs(a, b) ==
    /\ a.trace_id = b.trace_id
    /\ a.capabilities_id = b.capabilities_id
    /\ a.cost_ledger_id = b.cost_ledger_id
    /\ a.policy_ir_id = b.policy_ir_id
    /\ a.invariant_names = b.invariant_names

\* The calls told apart by what identifies a proof and by the proof id only.
OtherProofs ==
    {[trace_id |-> o.trace_id, capabilities_id |-> o.capabilities_id,
      cost_ledger_id |-> o.cost_ledger_id, policy_ir_id |-> o.policy_ir_id,
      invariant_names |-> o.invariant_names, proof_id |-> o.proof_id] : o \in OtherCalls}

ThisCall ==
    CallSummary(config, args.trace, args.capabilities, args.cost_ledger, args.policy_ir,
                args.invariants, ret[1].val)

C12_ProofIdInputs ==
    (pc = "done" /\ ret[1].ok) =>
        \A other \in OtherProofs :
            (other.proof_id = ThisCall.proof_id) <=> SameProofInputs(other, ThisCall)

\* The call has the proof id of another call that ran over a longer trace with
\* another invariant type under another configuration and found another number
\* of counterexamples.
C12_Witness ==
    /\ pc = "done"
    /\ ret[1].ok
    /\ \E other \in OtherCalls :
          /\ other.proof_id = ThisCall.proof_id
          /\ other.steps # ThisCall.steps
          /\ other.types # ThisCall.types
          /\ other.max_invariants # ThisCall.max_invariants
          /\ other.counterexamples # ThisCall.counterexamples

C14_WitnessError(w) ==
    IF w.proof_id = ""
    THEN [kind |-> "Validation", field |-> "proof_id",
          message |-> "ProofWitness must have a non-empty proof ID"]
    ELSE FirstInvalidError(w.execution_trace, w.capability_manifest, w.cost_ledger,
                           w.policy_ir)

C14_GenerateBundle ==
    gen # None =>
        IF gen_args = <<>>
        THEN /\ ~gen[1].ok
             /\ gen[1].err.kind = "Validation"
             /\ gen[1].err.field = "witnesses"
        ELSE IF \E i \in 1..Len(gen_args) : ~WitnessOk(gen_args[i])
        THEN /\ ~gen[1].ok
             /\ gen[1].err =
                  C14_WitnessError(gen_args[SetMin({i \in 1..Len(gen_args) :
                                                       ~WitnessOk(gen_args[i])})])
             /\ bundle = None
        ELSE /\ gen[1].ok
             /\ gen[1].val.witnesses = gen_args
             /\ gen[1].val.metadata = <<>>
             /\ gen[1].val.id =
                  "sha256({\"metadata\":{},\"witnesses\":["
                     \o Join([i \in 1..Len(gen_args) |-> "\"" \o gen_args[i].proof_id \o "\""],
                             ",")
                     \o "]})"

\* A valid witness followed by two invalid ones: the error is that of the
\* first invalid one, the empty proof id.
C14_Witness ==
    /\ gen # None
    /\ Len(gen_args) = 3
    /\ WitnessOk(gen_args[1])
    /\ gen_args[2].proof_id = ""
    /\ ~WitnessOk(gen_args[3])
    /\ ~gen[1].ok
    /\ gen[1].err.field = "proof_id"

(***************************************************************************)
(* C15: every ProofBundle returned by generate_bundle satisfies the        *)
(* ProofBundle invariant (non-empty id, at most 100 witnesses, every       *)
(* witness individually valid), so it passes the verifier's structural     *)
(* validation.                                                             *)
(***************************************************************************)
C15_GeneratedBundleValid ==
    (gen # None /\ gen[1].ok) =>
        /\ StructurallyValid(gen[1].val)
        /\ ProofBundle_validate(gen[1].val).ok

(***************************************************************************)
(* C16: a hand-constructed ProofBundle with an empty witness list passes   *)
(* bundle validation when its id is non-empty, and when that id is the one *)
(* the verifier recomputes, verify_bundle returns success=true with no     *)
(* witness results and no error.                                           *)
(***************************************************************************)
C16_EmptyBundle ==
    (Verified /\ Edited({"hand"}) /\ Checked.witnesses = <<>> /\ Checked.id # "") =>
        /\ ProofBundle_validate(Checked).ok
        /\ Checked.id = compute_bundle_id(Checked) =>
              Result = [bundle_id |-> Checked.id, success |-> TRUE,
                        witness_results |-> <<>>, error |-> <<>>]

C16_Witness ==
    /\ Verified
    /\ Edited({"hand"})
    /\ Checked.witnesses = <<>>
    /\ Checked.id = "sha256({\"metadata\":{},\"witnesses\":[]})"
    /\ Result.success = TRUE
    /\ Result.witness_results = <<>>
    /\ Result.error = <<>>

(***************************************************************************)
(* Vocabulary of the store properties.  live[s] holds the pairs <<id, v>>  *)
(* of the stores completed on allocation s since its last clear (a clone   *)
(* starts with those of its original).                                     *)
(***************************************************************************)
SlotOf(t) == arc[threads[t].h]
StoredAs(s, id) == {p \in live[s] : p[1] = id}
ResultOf(t) == threads[t].res[1]
Returned(t, op) == threads[t].pc = "done" /\ threads[t].op = op
\* The map holds exactly what the completed stores since the last clear put in.
AgreesWithLive(m, s) ==
    /\ DOMAIN m = {p[1] : p \in live[s]}
    /\ \A k \in DOMAIN m : \A p \in StoredAs(s, k) : JsonEq(m[k], p[2])

(***************************************************************************)
(* C17: on one store, retrieve(id) returns a value equal to v and          *)
(* contains(id) returns true exactly when some store(v) that returned id   *)
(* has happened since the last clear; otherwise retrieve(id) fails with    *)
(* ArtifactNotFound{artifact_id: id} and contains(id) returns false.       *)
(* retrieve and contains never change the store.                           *)
(***************************************************************************)
C17_Step ==
    \A t \in Threads :
        Read(t) =>
            LET s == SlotOf(t)
                id == threads[t].id
                r == threads'[t].res[1]
            IN /\ threads[t].op = "retrieve" =>
                    IF StoredAs(s, id) # {}
                    THEN r.ok /\ \A p \in StoredAs(s, id) : JsonEq(r.val, p[2])
                    ELSE r = [ok |-> FALSE,
                              err |-> [kind |-> "ArtifactNotFound", artifact_id |-> id]]
               /\ threads[t].op = "contains" =>
                    r = [ok |-> TRUE, val |-> (StoredAs(s, id) # {})]
               /\ \A k \in 1..Len(heap) : heap'[k].map = heap[k].map
               /\ live' = live

C17_RoundTrip == [][C17_Step]_vars

\* Both outcomes side by side: one thread got the artifact back, written with
\* its keys in the other order than the last store used, the other got
\* ArtifactNotFound for an id that store does not hold.
C17_Witness ==
    /\ Returned("t1", "retrieve")
    /\ Returned("t2", "retrieve")
    /\ SlotOf("t1") = SlotOf("t2")
    /\ ResultOf("t1").ok
    /\ Cardinality(StoredAs(SlotOf("t1"), threads["t1"].id)) = 2
    /\ ~ResultOf("t2").ok
    /\ ResultOf("t2").err.kind = "ArtifactNotFound"
    /\ live[SlotOf("t2")] # {}

(***************************************************************************)
(* C18: store is idempotent: storing the same logical value twice          *)
(* (including two values equal up to map key order) returns the same id    *)
(* both times, and the store's key set and retrievable contents after the  *)
(* second store are the same as after the first.                           *)
(***************************************************************************)
C18_Step ==
    \A t \in Threads :
        Commit(t) =>
            LET s == SlotOf(t)
                v == threads[t].arg[1]
                first == {p \in live[s] : JsonEq(p[2], v)}
            IN first # {} =>
                  /\ \A p \in first : p[1] = threads[t].id
                  /\ DOMAIN heap'[s].map = {p[1] : p \in live[s]}
                  /\ \A k \in DOMAIN heap'[s].map :
                        \A p \in StoredAs(s, k) : JsonEq(heap'[s].map[k], p[2])

C18_Returned ==
    \A t \in Threads :
        Returned(t, "store") =>
            /\ ResultOf(t).ok
            /\ \A s \in 1..Len(live) : \A p \in live[s] :
                  JsonEq(p[2], threads[t].arg[1]) => p[1] = ResultOf(t).val

C18_Idempotent == [](C18_Returned) /\ [][C18_Step]_vars

\* The second store of an object has returned, the first one had written the
\* keys in the other order.
C18_Witness ==
    \E t \in Threads :
        /\ Returned(t, "store")
        /\ \E p \in live[SlotOf(t)] :
              /\ p[2] # threads[t].arg[1]
              /\ JsonEq(p[2], threads[t].arg[1])
              /\ p[1] = ResultOf(t).val
        /\ Cardinality(DOMAIN heap[SlotOf(t)].map) = 1

(***************************************************************************)
(* C19: cloning the store yields an independent deep copy: immediately     *)
(* after c = s.clone(), c contains exactly the entries s had at that       *)
(* moment, and any later store or clear on s leaves c's contents unchanged *)
(* and any later store or clear on c leaves s's contents unchanged.        *)
(***************************************************************************)
C19_Step ==
    \A t \in Threads :
        /\ CloneCopy(t) =>
              /\ heap'[arc'["c"]].map = heap[arc["s"]].map
              /\ heap'[arc'["s"]].map = heap[arc["s"]].map
        /\ (Insert(t) \/ Commit(t) \/ Drain(t) \/ Erase(t)) =>
              \A h \in Handles \ {threads[t].h} :
                 arc[h] # 0 => heap'[arc'[h]].map = heap[arc[h]].map

C19_IndependentClone == [][C19_Step]_vars

\* After the clone, each of the two stores got an entry the other lacks.
C19_Witness ==
    /\ arc["c"] # 0
    /\ \A s \in 1..Len(heap) : heap[s].writers = {}
    /\ DOMAIN heap[arc["s"]].map \ DOMAIN heap[arc["c"]].map # {}
    /\ DOMAIN heap[arc["c"]].map \ DOMAIN heap[arc["s"]].map # {}

(***************************************************************************)
(* C20: when several threads concurrently call store, retrieve, contains   *)
(* and clear on one shared store, writers exclude each other and all       *)
(* readers for the duration of the mutation, no reader observes a          *)
(* partially applied write, and the results equal those of some sequential *)
(* order of the same operations: each operation takes effect at one step,  *)
(* and a read returns what the operations completed before it left.        *)
(***************************************************************************)
InMutation(t) ==
    threads[t].op \in {"store", "clear"} /\ threads[t].pc \in {"crit", "mid", "release"}
InLookup(t) ==
    threads[t].op \in {"retrieve", "contains", "clone"} /\ threads[t].pc = "crit"

C20_State ==
    /\ \A t, u \in Threads :
          (t # u /\ SlotOf(t) = SlotOf(u) /\ InMutation(t)) => ~InMutation(u) /\ ~InLookup(u)
    /\ \A t \in Threads :
          InLookup(t) => AgreesWithLive(heap[SlotOf(t)].map, SlotOf(t))
    /\ \A s \in 1..Len(heap) :
          (\A t \in Threads : SlotOf(t) = s => ~InMutation(t)) =>
              AgreesWithLive(heap[s].map, s)
    /\ \A t \in Threads :
          (Returned(t, "retrieve") /\ ResultOf(t).ok) => "torn" \notin DOMAIN ResultOf(t).val

C20_Step ==
    \A t \in Threads :
        /\ Read(t) =>
              threads'[t].res[1] =
                 IF threads[t].op = "contains"
                 THEN Ok(StoredAs(SlotOf(t), threads[t].id) # {})
                 ELSE IF StoredAs(SlotOf(t), threads[t].id) # {}
                 THEN Ok(heap[SlotOf(t)].map[threads[t].id])
                 ELSE Err(ArtifactNotFound(threads[t].id))
        /\ (Insert(t) \/ Drain(t)) => live' = live
        /\ Release(t) => live' = live

C20_ConcurrencySafe == [](C20_State) /\ [][C20_Step]_vars

\* A store is half way through its insert while the other thread waits for
\* the read lock of the same store to look the same id up.
C20_Witness ==
    /\ threads["t1"].op = "store"
    /\ threads["t1"].pc = "mid"
    /\ threads["t2"].op = "retrieve"
    /\ threads["t2"].pc = "lock"
    /\ SlotOf("t1") = SlotOf("t2")
    /\ threads["t1"].id = threads["t2"].id
    /\ heap[SlotOf("t1")].map[threads["t1"].id] = Torn

(***************************************************************************)
(* C21: once the lock of the store is poisoned, every later access to the  *)
(* store (store, retrieve, contains, clear and cloning the store) returns  *)
(* the failure LockPoisoned{resource} and does not panic.                  *)
(***************************************************************************)
C21_Step ==
    \A t \in Threads :
        (Acquire(t) /\ heap[SlotOf(t)].poisoned) =>
            /\ threads'[t].pc = "done"
            /\ threads'[t].res =
                  Some([ok |-> FALSE, err |-> [kind |-> "LockPoisoned", resource |-> "artifacts"]])

C21_PoisonSurfaces == [][C21_Step]_vars

(***************************************************************************)
(* C28: in every witness returned by verify_invariants, each input         *)
(* invariant is evaluated at most once and contributes at most one         *)
(* counterexample, so there are never more counterexamples than            *)
(* invariants; the counterexamples appear in the input order of the        *)
(* invariants they name, and step_index is never populated.                *)
(***************************************************************************)
\* The k-th smallest element of a set of numbers.
Kth(S, k) == CHOOSE x \in S : Cardinality({y \in S : y <= x}) = k

C28_State ==
    /\ \A i, j \in 1..Len(evaluated) : evaluated[i] = evaluated[j] => i = j
    /\ Len(counterexamples) <= Len(evaluated) + 1
    /\ (pc = "done" /\ ret[1].ok) =>
          LET cx == ret[1].val.counterexamples
              invs == args.invariants
          IN /\ Len(cx) <= Len(invs)
             /\ \E S \in SUBSET (1..Len(invs)) :
                   /\ Cardinality(S) = Len(cx)
                   /\ \A k \in 1..Len(cx) : cx[k].invariant_name = invs[Kth(S, k)].name
             /\ \A k \in 1..Len(cx) : cx[k].step_index = <<>>

C28_Step ==
    /\ Len(counterexamples') <= Len(counterexamples) + 1
    /\ Len(evaluated') <= Len(evaluated) + 1
    /\ \A k \in 1..Len(counterexamples) :
          k <= Len(counterexamples') /\ counterexamples'[k] = counterexamples[k]

C28_CounterexampleBound == [](C28_State) /\ [][(pc = "loop") => C28_Step]_vars

\* Two invariants each failed over a trace without steps and an empty
\* authority graph: two counterexamples, named in the input order.
C28_Witness ==
    /\ pc = "done"
    /\ ret[1].ok
    /\ Len(args.invariants) = 2
    /\ Len(ret[1].val.counterexamples) = 2
    /\ ret[1].val.counterexamples[1].invariant_name = args.invariants[1].name
    /\ ret[1].val.counterexamples[2].invariant_name = args.invariants[2].name
    /\ args.invariants[1].name # args.invariants[2].name

(***************************************************************************)
(* C29: for inputs accepted by verify_invariants, an EconomicInvariance or *)
(* SemanticPreservation invariant with a non-empty name never produces a   *)
(* "violation" counterexample; a "violation" arises only for a             *)
(* BehavioralSoundness invariant with a precondition over a trace with     *)
(* zero steps, or an AuthorityNonEscalation invariant with a precondition  *)
(* over an empty authority graph.                                          *)
(***************************************************************************)
C29_Step ==
    (/\ pc = "loop"
     /\ Len(counterexamples') = Len(counterexamples) + 1
     /\ counterexamples'[Len(counterexamples')].error_type = "violation") =>
        LET inv == args.invariants[idx]
        IN /\ inv.invariant_type \notin {"EconomicInvariance", "SemanticPreservation"}
           /\ inv.precondition # <<>>
           /\ \/ /\ inv.invariant_type = "BehavioralSoundness"
                 /\ Len(args.trace.steps) = 0
              \/ /\ inv.invariant_type = "AuthorityNonEscalation"
                 /\ DOMAIN args.capabilities.authority_graph = {}

C29_ViolationOnlyStructural == [][C29_Step]_vars

\* An economic and a semantic invariant passed and a behavioural one with a
\* precondition failed over the trace without steps.
C29_Witness ==
    /\ pc = "done"
    /\ ret[1].ok
    /\ Len(args.invariants) = 2
    /\ args.invariants[1].invariant_type \in {"EconomicInvariance", "SemanticPreservation"}
    /\ args.invariants[1].name # ""
    /\ args.invariants[2].invariant_type = "BehavioralSoundness"
    /\ Len(args.trace.steps) = 0
    /\ Len(ret[1].val.counterexamples) = 1
    /\ ret[1].val.counterexamples[1].error_type = "violation"
    /\ ret[1].val.counterexamples[1].invariant_name = args.invariants[2].name

(***************************************************************************)
(* C30: re-verification is deterministic.  Absent timeouts (in the run     *)
(* that made a witness and in the verifier's re-run) and under the same    *)
(* engine configuration, for every bundle generate_bundle built from       *)
(* witnesses verify_invariants returned, the counterexample_count the      *)
(* verifier reports for each witness is the number of counterexamples the  *)
(* witness stores, so verify_bundle returns success=true if and only if    *)
(* every witness of the bundle has an empty counterexample list.           *)
(***************************************************************************)
C30_Deterministic ==
    (/\ Verified
     /\ edit = None
     /\ config = vconfig
     /\ NoTimeout
     /\ \A i \in 1..Len(Checked.witnesses) :
           \A k \in 1..Len(Checked.witnesses[i].counterexamples) :
              ~IsTimeout(Checked.witnesses[i].counterexamples[k])) =>
        /\ Len(Result.witness_results) = Len(Checked.witnesses)
        /\ \A i \in 1..Len(Result.witness_results) :
              Result.witness_results[i].counterexample_count =
                 Len(Checked.witnesses[i].counterexamples)
        /\ Result.success <=>
              \A i \in 1..Len(Checked.witnesses) :
                 Checked.witnesses[i].counterexamples = <<>>

(***************************************************************************)
(* C22: canonical hashing.  For any two structured values,                 *)
(* compute_content_hash returns equal digests if and only if the values    *)
(* are equal up to map key order at every nesting depth; array element     *)
(* order is significant, changing a scalar leaf changes the digest, and    *)
(* repeated calls on the same value return the same digest.                *)
(***************************************************************************)
Called(fn) == call # <<>> /\ call[1].fn = fn

C22_CanonicalHash ==
    Called("compute_content_hash") =>
        LET a == call[1].in[1]
            b == call[1].in[2]
        IN /\ (call[1].out[1] = call[1].out[2]) <=> JsonEq(a, b)
           /\ a = b => call[1].out[1] = call[1].out[2]

\* Two objects that differ only in the key order of a nested object got the
\* same digest.
C22_Witness ==
    /\ Called("compute_content_hash")
    /\ call[1].in[1] # call[1].in[2]
    /\ "obj" \in DOMAIN call[1].in[1]
    /\ Len(call[1].in[1].obj) = 1
    /\ "obj" \in DOMAIN call[1].in[1].obj[1][2]
    /\ JsonEq(call[1].in[1], call[1].in[2])
    /\ call[1].out[1] = call[1].out[2]

(***************************************************************************)
(* C25: artifact validation accepts exactly the values that satisfy the    *)
(* data-model invariants.  ExecutionTrace.validate succeeds iff the id is  *)
(* non-empty and there are at most 100,000 steps (an empty id is reported  *)
(* before the step ceiling, excess steps as ResourceLimit "trace_steps");  *)
(* CapabilityManifest.validate succeeds iff id and agent_id are non-empty; *)
(* CostLedger.validate succeeds iff the id is non-empty and total_cost is  *)
(* finite and non-negative (negative, NaN and infinite totals are each     *)
(* rejected as Validation on field total_cost); PolicyIR.validate succeeds *)
(* iff the id is non-empty.                                                *)
(***************************************************************************)
C25_Validation ==
    Called("validate") =>
        LET kind == call[1].in[1]
            a == call[1].in[2]
            r == call[1].out
        IN /\ kind = "ExecutionTrace" =>
                /\ r.ok <=> (a.id # "" /\ Len(a.steps) <= 100000)
                /\ a.id = "" => (r.err.kind = "Validation" /\ r.err.field = "id")
                /\ (a.id # "" /\ Len(a.steps) > 100000) =>
                      (r.err.kind = "ResourceLimit" /\ r.err.resource = "trace_steps")
           /\ kind = "CapabilityManifest" => (r.ok <=> (a.id # "" /\ a.agent_id # ""))
           /\ kind = "CostLedger" =>
                /\ r.ok <=> (a.id # "" /\ "fin" \in DOMAIN a.total_cost /\ a.total_cost.fin >= 0)
                /\ (a.id # "" /\ ~("fin" \in DOMAIN a.total_cost /\ a.total_cost.fin >= 0)) =>
                      (r.err.kind = "Validation" /\ r.err.field = "total_cost")
           /\ kind = "PolicyIR" => (r.ok <=> a.id # "")

\* A ledger with an id and an infinite total was refused for its total.
C25_Witness ==
    /\ Called("validate")
    /\ call[1].in[1] = "CostLedger"
    /\ call[1].in[2].id # ""
    /\ is_infinite(call[1].in[2].total_cost)
    /\ call[1].out = Err(Validation("total_cost", "CostLedger total_cost must be finite"))

(***************************************************************************)
(* C24: parse_temporal_property recognizes exactly the four leading        *)
(* operator keywords always, eventually, until and next.  For trimmed      *)
(* input that starts with one of them and has a non-empty trimmed          *)
(* remainder it returns that operator and the remainder as the expression; *)
(* it fails with ParseError when the remainder is empty or when no         *)
(* recognized operator prefixes the text.                                  *)
(***************************************************************************)
C24_TemporalOperators ==
    Called("parse_temporal_property") =>
        LET text == call[1].in
            r == call[1].out
            blank(i) == text[i] = " "
            \* the places of the first and the last token that is not a blank
            inner == {i \in 1..Len(text) : ~blank(i)}
            lo == CHOOSE i \in inner : \A j \in inner : i <= j
            hi == CHOOSE i \in inner : \A j \in inner : j <= i
            mid == CHOOSE i \in inner \ {lo} : \A j \in inner \ {lo} : i <= j
            keyword == inner # {} /\ text[lo] \in {"always", "eventually", "until", "next"}
        IN /\ (keyword /\ lo < hi) =>
                /\ r.ok
                /\ r.val.operator = text[lo]
                /\ r.val.expression = Join(SubSeq(text, mid, hi), "")
           /\ (keyword /\ lo = hi) => (~r.ok /\ r.err.kind = "ParseError")
           /\ ~keyword => (~r.ok /\ r.err.kind = "ParseError")

\* "  nextuntil" written with a leading blank: the operator is next and the
\* expression is the second keyword.
C24_Witness ==
    /\ Called("parse_temporal_property")
    /\ call[1].in = <<" ", "next", "until">>
    /\ call[1].out = Ok([operator |-> "next", expression |-> "until"])

(***************************************************************************)
(* C23: parse_invariant takes the spec name from the first line of the     *)
(* comment-stripped text that has the form "invariant <identifier>",       *)
(* independent of where the optional field lines appear; when no line has  *)
(* that form it fails with ParseError{source: "invariant_spec", message:   *)
(* "missing invariant name declaration"} and returns no spec.  A line has  *)
(* the form when the pattern of the name matches within that line.         *)
(***************************************************************************)
C23_NameFromLine ==
    Called("parse_invariant") =>
        LET lines == call[1].in
            r == call[1].out
            declared(i) == extract_name(strip_comments(<<lines[i]>>))
            declaring == {i \in 1..Len(lines) : declared(i).ok}
        IN IF declaring = {}
           THEN r = Err(ParseError("invariant_spec", "missing invariant name declaration"))
           ELSE /\ r.ok
                /\ r.val.name = declared(CHOOSE i \in declaring : \A j \in declaring : i <= j).val

(***************************************************************************)
(* C26: content-address invariant of the store.  In every state reachable  *)
(* by any sequence or thread interleaving of store, clear, create_bundle   *)
(* and clone, every key k held by the store maps to a value v with         *)
(* compute_content_hash(v) = k, so validate_integrity(k, retrieve(k)) is   *)
(* true for every stored key.  An entry that insert is still writing is    *)
(* held only while the writer has the lock.                                *)
(***************************************************************************)
C26_ContentAddressed ==
    /\ \A s \in 1..Len(heap) :
          LET m == heap[s].map
          IN /\ \A k \in DOMAIN m : m[k] # Torn => compute_content_hash(m[k]) = k
             /\ heap[s].writers = {} => \A k \in DOMAIN m : m[k] # Torn
    /\ \A t \in Threads :
          (Returned(t, "retrieve") /\ ResultOf(t).ok) =>
              validate_artifact_integrity(threads[t].id, ResultOf(t).val)

\* A manager that nobody is writing to holds the four artifacts of a bundle
\* and a value stored on its own, and a retrieve has returned one of them.
C26_Witness ==
    /\ Called("create_bundle")
    /\ call[1].out # None
    /\ call[1].out[1].ok
    /\ \E s \in 1..Len(heap) :
          /\ heap[s].writers = {}
          /\ Cardinality(DOMAIN heap[s].map) = 5
    /\ \E t \in Threads : Returned(t, "retrieve") /\ ResultOf(t).ok

(***************************************************************************)
(* C27: create_bundle modifies the store if and only if all four artifacts *)
(* pass validation.  When any artifact is invalid it returns that          *)
(* validation error (of the first invalid one, in the order trace,         *)
(* capabilities, cost ledger, policy) and leaves the store unchanged; when *)
(* all are valid it only adds the content-hash keys of the four serialized *)
(* artifacts (removing nothing), never returns IntegrityFailure, and       *)
(* returns a bundle with exactly one witness that has no invariants and no *)
(* counterexamples.                                                        *)
(***************************************************************************)
C27_Checks(f) ==
    <<ExecutionTrace_validate(f.in[1]), CapabilityManifest_validate(f.in[2]),
      CostLedger_validate(f.in[3]), PolicyIR_validate(f.in[4])>>

C27_Invalid(f) == {i \in 1..4 : ~C27_Checks(f)[i].ok}

C27_State ==
    Called("create_bundle") =>
        LET f == call[1]
            bad == C27_Invalid(f)
        IN /\ bad # {} =>
                /\ f.out = Some(C27_Checks(f)[CHOOSE i \in bad : \A j \in bad : i <= j])
                /\ f.ids = <<>>
           /\ (bad = {} /\ f.out # None) =>
                /\ f.out[1].ok
                /\ Len(f.out[1].val.witnesses) = 1
                /\ f.out[1].val.witnesses[1].invariants = <<>>
                /\ f.out[1].val.witnesses[1].counterexamples = <<>>
                /\ f.ids = [i \in 1..4 |-> compute_content_hash(to_value(f.in[i]))]
           /\ (f.out # None /\ ~f.out[1].ok) => f.out[1].err.kind # "IntegrityFailure"

\* A step of create_bundle: its entry, or a step of its thread before it returns.
C27_Step ==
    (/\ call' # None
     /\ call'[1].fn = "create_bundle"
     /\ \/ call # call'
        \/ call[1].out = None /\ threads'[call[1].t] # threads[call[1].t]) =>
        LET f == call'[1]
            valid == C27_Invalid(f) = {}
            th == threads[f.t]
        IN /\ arc' = arc
           /\ Len(heap') = Len(heap)
           /\ ~valid => heap' = heap
           /\ \A s \in 1..Len(heap) :
                 /\ DOMAIN heap[s].map \subseteq DOMAIN heap'[s].map
                 /\ \A k \in DOMAIN heap'[s].map :
                       \/ k \in DOMAIN heap[s].map /\ heap'[s].map[k] = heap[s].map[k]
                       \/ /\ valid
                          /\ s = arc[f.h]
                          /\ \E i \in 1..4 : k = compute_content_hash(to_value(f.in[i]))
           /\ (th.pc = "mid" /\ threads'[f.t].pc = "release") =>
                 /\ th.id \in DOMAIN heap'[arc[f.h]].map
                 /\ heap'[arc[f.h]].map[th.id] = to_value(f.in[Len(f.ids) + 1])

C27_CreateBundleFrame == [](C27_State) /\ [][C27_Step]_vars

\* create_bundle has returned a bundle and its manager holds the four
\* artifacts under their content hashes, and nothing else.
C27_Witness ==
    /\ Called("create_bundle")
    /\ call[1].out # None
    /\ call[1].out[1].ok
    /\ Len(call[1].out[1].val.witnesses) = 1
    /\ DOMAIN heap[arc[call[1].h]].map =
          {compute_content_hash(to_value(call[1].in[i])) : i \in 1..4}
    /\ heap[arc[call[1].h]].writers = {}

====
